---- MODULE Spec2Model ----
(***************************************************************************)
(* Model of the VFS core of the library OS shim:                           *)
(*   - the mutation syscalls of LibOS/shim/src/sys/shim_file.c             *)
(*     (unlinkat, rmdir, renameat) acting on the dentry cache;             *)
(*   - the cross-backend copy engine (shim_do_sendfile / handle_copy);     *)
(*   - the mount table of LibOS/shim/src/fs/shim_fs.c: mount_fs, the       *)
(*     mounting of the configuration, find_mount_from_uri, and the         *)
(*     checkpoint and restore of mounts and filesystem types.              *)
(* Every syscall of the dentry part is one atomic action; the copy engine  *)
(* is one action for the call entry and prologue and one per iteration of  *)
(* the copy loop (the last one runs the epilogue and returns).             *)
(***************************************************************************)
EXTENDS Integers, Sequences, FiniteSets, TLC

VARIABLES
    dentries,   \* dentry cache: name -> struct shim_dentry fields
    last,       \* record of the most recent dentry syscall (arguments, result, trace)
    ncalls,     \* number of dentry syscalls issued so far
    hdl,        \* the two open handles of a sendfile call: "i" (input), "o" (output)
    sf,         \* frame of shim_do_sendfile / handle_copy (locals and position)
    log,        \* backend stream operations invoked by the current sendfile call
    mount_list,     \* the Mount Table: struct shim_mount records in list order
    mount_migrated, \* static bool mount_migrated
    image,          \* the checkpoint being written or restored
    process,        \* g_process: cwd and root dentries; g_manifest_root
    threads,        \* per thread: the syscall it is in, its position and locals
    locks           \* owner of g_dcache_lock, g_process.fs_lock and mount_list_lock

mountVars == <<mount_list, mount_migrated, image, process>>

vars == <<dentries, last, ncalls, hdl, sf, log, mount_list, mount_migrated, image, process,
          threads, locks>>

NoThread == "-"        \* no owner

(* a process with one thread, whose calls are atomic: no call in progress, *)
(* no lock held                                                            *)
ThreadsIdle ==
    /\ threads = <<>>
    /\ locks = [g_dcache_lock |-> NoThread, fs_lock |-> NoThread,
                mount_list_lock |-> NoThread]

(* no checkpoint written *)
NoImage ==
    [phase |-> "live", map |-> [mount |-> {}, fs |-> {}], entries |-> <<>>, src |-> <<>>, pos |-> 0,
     ret |-> 0, registry |-> {}, fs |-> {}]

(* the mount table of a process that has mounted nothing *)
MountIdle ==
    /\ mount_list = <<>>
    /\ mount_migrated = FALSE
    /\ image = NoImage
    /\ process = [cwd |-> "/", root |-> "/", manifest |-> <<>>]

---------------------------------------------------------------------------
(* errno values, returned negated *)
EPERM     == 1
ENOENT    == 2
EIO       == 5
EBADF     == 9
EAGAIN    == 11
EACCES    == 13
EFAULT    == 14
EXDEV     == 18
ENOTDIR   == 20
EISDIR    == 21
EINVAL    == 22
ENOSYS    == 38
ENOTEMPTY == 39

(* bounds of the model *)
MaxCalls == 2          \* dentry syscalls per behaviour

Min(a, b) == IF a < b THEN a ELSE b
Max(a, b) == IF a > b THEN a ELSE b

---------------------------------------------------------------------------
(*                              DENTRY CACHE                               *)

NoDent == "-"          \* NULL dentry pointer

(* The cached tree.  Mount m0 (chroot) is the root, m1 is a second chroot  *)
(* mount at /m, m2 is a proc mount at /p.                                   *)
DentryNames == {"/", "/d", "/d/f", "/l", "/n", "/m", "/m/h", "/p", "/p/q"}

InitParent(d) ==
    CASE d = "/"    -> NoDent
      [] d = "/d/f" -> "/d"
      [] d = "/m/h" -> "/m"
      [] d = "/p/q" -> "/p"
      [] OTHER      -> "/"

InitType(d) ==
    CASE d \in {"/", "/d", "/m", "/p"} -> "S_IFDIR"
      [] d = "/l"                      -> "S_IFLNK"
      [] d = "/n"                      -> "NONE"
      [] OTHER                         -> "S_IFREG"

InitMount(d) ==
    CASE d \in {"/m", "/m/h"} -> "m1"
      [] d \in {"/p", "/p/q"} -> "m2"
      [] OTHER                -> "m0"

MountFs(m) == IF m = "m2" THEN "proc" ELSE "chroot"

InitState(d) ==
    {"DENTRY_VALID"}
      \cup (IF InitType(d) = "S_IFDIR" THEN {"DENTRY_ISDIRECTORY"} ELSE {})
      \cup (IF d = "/n" THEN {"DENTRY_NEGATIVE"} ELSE {})
      \cup (IF d \in {"/", "/m", "/p"} THEN {"DENTRY_MOUNTPOINT"} ELSE {})

(* permission bits a dentry starts with: 0755 for directories, else 0644 *)
InitPerm(d) == IF InitType(d) = "S_IFDIR" THEN 493 ELSE 420

InitDentry(d) ==
    [parent    |-> InitParent(d),
     state     |-> InitState(d),
     type      |-> InitType(d),
     perm      |-> InitPerm(d),
     fs        |-> MountFs(InitMount(d)),
     mount     |-> InitMount(d),
     nchildren |-> Cardinality({c \in DentryNames : InitParent(c) = d}),
     ref_count |-> 1]

(* directory operations each filesystem type exposes (fs->d_ops) *)
DOps(fs) == IF fs = "chroot" THEN {"unlink", "rename", "chmod"} ELSE {}

get_dentry(ds, d) == [ds EXCEPT ![d].ref_count = @ + 1]
put_dentry(ds, d) == [ds EXCEPT ![d].ref_count = @ - 1]

(* dentry_is_ancestor(anc, dent): walk the parent links from dent *)
RECURSIVE dentry_is_ancestor(_, _, _)
dentry_is_ancestor(ds, anc, dent) ==
    IF dent = NoDent THEN FALSE
    ELSE IF dent = anc THEN TRUE
    ELSE dentry_is_ancestor(ds, anc, ds[dent].parent)

StrictAncestor(ds, anc, dent) ==
    anc # dent /\ dentry_is_ancestor(ds, anc, dent)

(* Path arguments.  A path names the dentry it resolves to; "rel:f" is the  *)
(* relative path "f" given with a directory fd open on /d, "rel:bad" a     *)
(* relative path given with an invalid directory fd, "noent" a path with a *)
(* missing intermediate component, "fault" an unreadable string.           *)
Paths == DentryNames \cup {"rel:f", "rel:bad", "noent", "fault"}

PathTarget(p) == IF p = "rel:f" THEN "/d/f" ELSE IF p \in DentryNames THEN p ELSE NoDent
PathDir(p)    == IF p = "rel:f" THEN "/d" ELSE NoDent

is_user_string_readable(p) == p # "fault"

(* get_dirfd_dentry: 0 and a referenced directory dentry, or an error *)
get_dirfd_dentry(ds, p) ==
    IF p = "rel:bad" THEN [ret |-> -EBADF, ds |-> ds, dir |-> NoDent]
    ELSE IF PathDir(p) = NoDent THEN [ret |-> 0, ds |-> ds, dir |-> NoDent]
    ELSE [ret |-> 0, ds |-> get_dentry(ds, PathDir(p)), dir |-> PathDir(p)]

(* a component strictly between the start of the walk and the target that  *)
(* is negative or not a directory stops the walk                           *)
RECURSIVE WalkBlocked(_, _, _)
WalkBlocked(ds, start, d) ==
    LET par == ds[d].parent IN
    IF par = NoDent \/ d = start THEN FALSE
    ELSE IF par = start THEN FALSE
    ELSE \/ "DENTRY_NEGATIVE" \in ds[par].state
         \/ "DENTRY_ISDIRECTORY" \notin ds[par].state
         \/ WalkBlocked(ds, start, par)

(* path_lookupat(start, path, flags, &dent): the dentry with one more      *)
(* reference, or an error.  A negative last component is returned only     *)
(* under LOOKUP_CREATE; LOOKUP_DIRECTORY requires a directory.             *)
path_lookupat(ds, start, p, flags) ==
    LET d == PathTarget(p) IN
    IF d = NoDent THEN [ret |-> -ENOENT, ds |-> ds, dent |-> NoDent]
    ELSE IF WalkBlocked(ds, start, d) THEN [ret |-> -ENOENT, ds |-> ds, dent |-> NoDent]
    ELSE IF "DENTRY_NEGATIVE" \in ds[d].state /\ "LOOKUP_CREATE" \notin flags
        THEN [ret |-> -ENOENT, ds |-> ds, dent |-> NoDent]
    ELSE IF /\ "LOOKUP_DIRECTORY" \in flags
            /\ "DENTRY_NEGATIVE" \notin ds[d].state
            /\ "DENTRY_ISDIRECTORY" \notin ds[d].state
        THEN [ret |-> -ENOTDIR, ds |-> ds, dent |-> NoDent]
    ELSE [ret |-> 0, ds |-> get_dentry(ds, d), dent |-> d]

(* results a backend directory operation can report *)
BackendRets == {0, -EIO}

---------------------------------------------------------------------------
(*                          unlinkat / rmdir                               *)

UnlinkFlags == {"0", "AT_REMOVEDIR", "AT_OTHER"}

UnlinkBackend_NoPersist(ds, dent, bret) ==
    IF "unlink" \in DOps(ds[dent].fs)
    THEN [ret |-> bret, ds |-> ds, called |-> {"unlink"}]
    ELSE [ret |-> 0, ds |-> ds, called |-> {}]

UnlinkBackend_ErrorDropped(ds, dent, bret) ==
    IF "unlink" \in DOps(ds[dent].fs)
    THEN [ret |-> 0, ds |-> ds, called |-> {"unlink"}]
    ELSE [ret |-> 0,
          ds |-> [ds EXCEPT ![dent].state = @ \cup {"DENTRY_PERSIST"}],
          called |-> {}]

(* lines 64-70: call the backend unlink, or fall back to DENTRY_PERSIST *)
UnlinkBackend(ds, dent, bret) ==
    IF "unlink" \in DOps(ds[dent].fs)
    THEN [ret |-> bret, ds |-> ds, called |-> {"unlink"}]
    ELSE [ret |-> 0,
          ds |-> [ds EXCEPT ![dent].state = @ \cup {"DENTRY_PERSIST"}],
          called |-> {}]

UnlinkFinish_NoNegative(ds, dent, removedir) ==
    IF removedir THEN [ds EXCEPT ![dent].state = @ \ {"DENTRY_ISDIRECTORY"}] ELSE ds

(* lines 72-75: clear ISDIRECTORY for AT_REMOVEDIR, set NEGATIVE *)
UnlinkFinish(ds, dent, removedir) ==
    [ds EXCEPT ![dent].state =
        (IF removedir THEN @ \ {"DENTRY_ISDIRECTORY"} ELSE @) \cup {"DENTRY_NEGATIVE"}]

(* lines 76-82: the out: label *)
UnlinkOut(ds, dir, dent, ret, called) ==
    LET ds1 == IF dir # NoDent THEN put_dentry(ds, dir) ELSE ds
        ds2 == IF dent # NoDent THEN put_dentry(ds1, dent) ELSE ds1
    IN [ret |-> ret, ds |-> ds2, called |-> called]

NoParent_Never(ds, dent) == FALSE

(* lines 47 and 117: !dent->parent *)
NoParent(ds, dent) == ds[dent].parent = NoDent

UnlinkatMode_Off(state, flag) == 0

(* lines 52-62: the kind of the dentry against the mode of the call *)
UnlinkatMode(state, flag) ==
    IF flag = "AT_REMOVEDIR" /\ "DENTRY_ISDIRECTORY" \notin state THEN -ENOTDIR
    ELSE IF flag # "AT_REMOVEDIR" /\ "DENTRY_ISDIRECTORY" \in state THEN -EISDIR
    ELSE 0

shim_do_unlinkat(ds, p, flag, bret) ==
    IF ~is_user_string_readable(p) THEN [ret |-> -EFAULT, ds |-> ds, called |-> {}]
    ELSE IF flag = "AT_OTHER" THEN [ret |-> -EINVAL, ds |-> ds, called |-> {}]
    ELSE
    LET g == get_dirfd_dentry(ds, p) IN
    IF g.ret < 0 THEN [ret |-> g.ret, ds |-> ds, called |-> {}]
    ELSE
    LET l == path_lookupat(g.ds, g.dir, p, {"LOOKUP_NO_FOLLOW"}) IN
    IF l.ret < 0 THEN UnlinkOut(l.ds, g.dir, NoDent, l.ret, {})
    ELSE IF NoParent(l.ds, l.dent) THEN UnlinkOut(l.ds, g.dir, l.dent, -EACCES, {})
    ELSE IF UnlinkatMode(l.ds[l.dent].state, flag) < 0
        THEN UnlinkOut(l.ds, g.dir, l.dent, UnlinkatMode(l.ds[l.dent].state, flag), {})
    ELSE
    LET b == UnlinkBackend(l.ds, l.dent, bret) IN
    IF b.ret < 0 THEN UnlinkOut(b.ds, g.dir, l.dent, b.ret, b.called)
    ELSE UnlinkOut(UnlinkFinish(b.ds, l.dent, flag = "AT_REMOVEDIR"),
                   g.dir, l.dent, 0, b.called)

shim_do_rmdir(ds, p, bret) ==
    IF ~is_user_string_readable(p) THEN [ret |-> -EFAULT, ds |-> ds, called |-> {}]
    ELSE
    LET l == path_lookupat(ds, NoDent, p, {"LOOKUP_NO_FOLLOW", "LOOKUP_DIRECTORY"}) IN
    IF l.ret < 0 THEN [ret |-> l.ret, ds |-> l.ds, called |-> {}]
    ELSE IF NoParent(l.ds, l.dent) THEN UnlinkOut(l.ds, NoDent, l.dent, -EACCES, {})
    ELSE IF "DENTRY_ISDIRECTORY" \notin l.ds[l.dent].state
        THEN UnlinkOut(l.ds, NoDent, l.dent, -ENOTDIR, {})
    ELSE
    LET b == UnlinkBackend(l.ds, l.dent, bret) IN
    IF b.ret < 0 THEN UnlinkOut(b.ds, NoDent, l.dent, b.ret, b.called)
    ELSE UnlinkOut(UnlinkFinish(b.ds, l.dent, TRUE), NoDent, l.dent, 0, b.called)

---------------------------------------------------------------------------
(*                        chmod / fchmodat / fchmod                        *)

(* mode arguments: within the permission bits (0644, 07777), and with the   *)
(* file-type bits above them set (010644, 0177777)                          *)
Modes == {420, 4095, 4096 + 420, 65535}

ModeMask_Identity(mode) == mode

(* lines 158, 192: mode &= 07777 *)
ModeMask(mode) == mode % 4096

ChmodBackend_NoPersist(ds, dent, mode, bret) ==
    IF "chmod" \in DOps(ds[dent].fs)
    THEN [ret |-> bret, ds |-> ds, handed |-> <<mode>>]
    ELSE [ret |-> 0, ds |-> ds, handed |-> <<>>]

(* lines 170-175, 202-207: call the backend chmod, or fall back to         *)
(* DENTRY_PERSIST                                                           *)
ChmodBackend(ds, dent, mode, bret) ==
    IF "chmod" \in DOps(ds[dent].fs)
    THEN [ret |-> bret, ds |-> ds, handed |-> <<mode>>]
    ELSE [ret |-> 0,
          ds |-> [ds EXCEPT ![dent].state = @ \cup {"DENTRY_PERSIST"}],
          handed |-> <<>>]

(* lines 177, 209: dent->perm = mode *)
ChmodStore(ds, dent, mode) == [ds EXCEPT ![dent].perm = mode]

(* paths given to the chmod calls: a symbolic link is followed to its      *)
(* target, which is one of the other paths                                 *)
ChmodPaths == {"/d/f", "/p/q", "/p", "/n", "rel:f", "rel:bad", "noent", "fault"}

shim_do_fchmodat(ds, p, mode0, bret) ==
    IF ~is_user_string_readable(p)
    THEN [ret |-> -EFAULT, ds |-> ds, handed |-> <<>>, dent |-> NoDent]
    ELSE
    LET mode == ModeMask(mode0)
        g    == get_dirfd_dentry(ds, p)
    IN
    IF g.ret < 0 THEN [ret |-> g.ret, ds |-> ds, handed |-> <<>>, dent |-> NoDent]
    ELSE
    LET l    == path_lookupat(g.ds, g.dir, p, {"LOOKUP_FOLLOW"})
        out(ds1) == IF g.dir # NoDent THEN put_dentry(ds1, g.dir) ELSE ds1
    IN
    IF l.ret < 0 THEN [ret |-> l.ret, ds |-> out(l.ds), handed |-> <<>>, dent |-> NoDent]
    ELSE
    LET b == ChmodBackend(l.ds, l.dent, mode, bret) IN
    IF b.ret < 0
    THEN [ret |-> b.ret, ds |-> out(put_dentry(b.ds, l.dent)),
          handed |-> b.handed, dent |-> l.dent]
    ELSE [ret |-> 0, ds |-> out(put_dentry(ChmodStore(b.ds, l.dent, mode), l.dent)),
          handed |-> b.handed, dent |-> l.dent]

(* lines 149-151 *)
shim_do_chmod(ds, p, mode, bret) == shim_do_fchmodat(ds, p, mode, bret)

(* open file descriptors of the chmod calls and the dentry of each handle  *)
Fds == {"fd:f", "fd:q", "fd:nodent"}
FdDentry(fd) ==
    CASE fd = "fd:f" -> "/d/f"
      [] fd = "fd:q" -> "/p/q"
      [] OTHER       -> NoDent

FileHandle(fd) == [dentry |-> FdDentry(fd), ref_count |-> 1]

(* get_fd_handle(fd, NULL, NULL): the handle with one more reference *)
get_fd_handle(h, fd) ==
    IF fd \in DOMAIN h THEN [h EXCEPT ![fd].ref_count = @ + 1] ELSE h

put_fd_handle(h, fd) == [h EXCEPT ![fd].ref_count = @ - 1]

shim_do_fchmod(ds, h, fd, mode0, bret) ==
    IF fd \notin DOMAIN h
    THEN [ret |-> -EBADF, ds |-> ds, h |-> h, handed |-> <<>>, dent |-> NoDent]
    ELSE
    LET h1   == get_fd_handle(h, fd)
        mode == ModeMask(mode0)
        dent == h1[fd].dentry
    IN
    IF dent = NoDent
    THEN [ret |-> -EINVAL, ds |-> ds, h |-> put_fd_handle(h1, fd),
          handed |-> <<>>, dent |-> NoDent]
    ELSE
    LET b == ChmodBackend(ds, dent, mode, bret) IN
    IF b.ret < 0
    THEN [ret |-> b.ret, ds |-> b.ds, h |-> put_fd_handle(h1, fd),
          handed |-> b.handed, dent |-> dent]
    ELSE [ret |-> 0, ds |-> ChmodStore(b.ds, dent, mode), h |-> put_fd_handle(h1, fd),
          handed |-> b.handed, dent |-> dent]

---------------------------------------------------------------------------
(*                                rename                                   *)

(* d_ops->rename of the backend: on success the destination takes over    *)
(* the object, hence its type                                              *)
BackendRename(ds, old, new, bret) ==
    IF bret = 0 THEN [ds EXCEPT ![new].type = ds[old].type] ELSE ds

RenameTypeCheck_Off(ds, old, new) == FALSE

RenameTypeCheck_OldOnly(ds, old, new) == ds[old].type # "S_IFREG"

RenameTypeCheck_NewOnly(ds, old, new) ==
    "DENTRY_NEGATIVE" \notin ds[new].state /\ ds[new].type # "S_IFREG"

(* lines 499-503: only regular files can be renamed *)
RenameTypeCheck(ds, old, new) ==
    \/ ds[old].type # "S_IFREG"
    \/ ("DENTRY_NEGATIVE" \notin ds[new].state /\ ds[new].type # "S_IFREG")

(* lines 505-508: "Disallow cross mount renames" *)
RenameCrossMount(ds, old, new) == ds[old].fs # ds[new].fs

(* lines 531-533 *)
RenameCycle(ds, old, new) ==
    dentry_is_ancestor(ds, old, new) \/ dentry_is_ancestor(ds, new, old)

RenameFinish_KeepFlags(ds, old, new) == ds

(* lines 539-540: the source becomes negative, then the destination is no  *)
(* longer negative                                                         *)
RenameFinish(ds, old, new) ==
    [ds EXCEPT ![old].state = @ \cup {"DENTRY_NEGATIVE"},
               ![new].state = ds[new].state \ {"DENTRY_NEGATIVE"}]

do_rename(ds, old, new, bret) ==
    IF RenameTypeCheck(ds, old, new) THEN [ret |-> -ENOSYS, ds |-> ds, called |-> {}]
    ELSE IF RenameCrossMount(ds, old, new) THEN [ret |-> -EXDEV, ds |-> ds, called |-> {}]
    ELSE IF "rename" \notin DOps(ds[old].fs) THEN [ret |-> -EPERM, ds |-> ds, called |-> {}]
    ELSE IF /\ "DENTRY_ISDIRECTORY" \in ds[old].state
            /\ "DENTRY_NEGATIVE" \notin ds[new].state
            /\ "DENTRY_ISDIRECTORY" \notin ds[new].state
        THEN [ret |-> -ENOTDIR, ds |-> ds, called |-> {}]
    ELSE IF /\ "DENTRY_ISDIRECTORY" \in ds[old].state
            /\ "DENTRY_NEGATIVE" \notin ds[new].state
            /\ ds[new].nchildren > 0
        THEN [ret |-> -ENOTEMPTY, ds |-> ds, called |-> {}]
    ELSE IF /\ "DENTRY_ISDIRECTORY" \notin ds[old].state
            /\ "DENTRY_ISDIRECTORY" \in ds[new].state
        THEN [ret |-> -EISDIR, ds |-> ds, called |-> {}]
    ELSE
    \* a directory source and a negative destination: mark it a directory
    LET ds1 == IF /\ "DENTRY_ISDIRECTORY" \in ds[old].state
                  /\ "DENTRY_NEGATIVE" \in ds[new].state
               THEN [ds EXCEPT ![new].state = @ \cup {"DENTRY_ISDIRECTORY"}]
               ELSE ds
    IN
    IF RenameCycle(ds1, old, new) THEN [ret |-> -EINVAL, ds |-> ds1, called |-> {}]
    ELSE
    LET ds2 == BackendRename(ds1, old, new, bret) IN
    IF bret = 0
    THEN [ret |-> 0, ds |-> RenameFinish(ds2, old, new), called |-> {"rename"}]
    ELSE [ret |-> bret, ds |-> ds2, called |-> {"rename"}]

RenameOut_KeepRefs(ds, held, r) ==
    [ret |-> r.ret, called |-> r.called, reached |-> r.reached,
     old |-> r.old, new |-> r.new, ds |-> ds]

(* lines 588-597: the out: label *)
RenameOut(ds, held, r) ==
    [ret |-> r.ret, called |-> r.called, reached |-> r.reached,
     old |-> r.old, new |-> r.new,
     ds |-> [d \in DOMAIN ds |->
                [ds[d] EXCEPT !.ref_count =
                    @ - Cardinality({i \in DOMAIN held : held[i] = d})]]]

RenameFail(ret) ==
    [ret |-> ret, called |-> {}, reached |-> FALSE, old |-> NoDent, new |-> NoDent]

shim_do_renameat(ds, oldpath, newpath, bret) ==
    IF ~is_user_string_readable(oldpath) \/ ~is_user_string_readable(newpath)
    THEN RenameOut(ds, <<>>, RenameFail(-EFAULT))
    ELSE
    LET g1 == get_dirfd_dentry(ds, oldpath) IN
    IF g1.ret < 0 THEN RenameOut(g1.ds, <<>>, RenameFail(g1.ret))
    ELSE
    LET l1 == path_lookupat(g1.ds, g1.dir, oldpath, {"LOOKUP_NO_FOLLOW"}) IN
    IF l1.ret < 0 THEN RenameOut(l1.ds, <<g1.dir>>, RenameFail(l1.ret))
    ELSE IF "DENTRY_NEGATIVE" \in l1.ds[l1.dent].state
        THEN RenameOut(l1.ds, <<g1.dir, l1.dent>>, RenameFail(-ENOENT))
    ELSE
    LET g2 == get_dirfd_dentry(l1.ds, newpath) IN
    IF g2.ret < 0 THEN RenameOut(g2.ds, <<g1.dir, l1.dent>>, RenameFail(g2.ret))
    ELSE
    LET l2 == path_lookupat(g2.ds, g2.dir, newpath, {"LOOKUP_NO_FOLLOW", "LOOKUP_CREATE"}) IN
    IF l2.ret < 0 THEN RenameOut(l2.ds, <<g1.dir, l1.dent, g2.dir>>, RenameFail(l2.ret))
    ELSE
    LET r == do_rename(l2.ds, l1.dent, l2.dent, bret) IN
    RenameOut(r.ds, <<g1.dir, l1.dent, g2.dir, l2.dent>>,
              [ret |-> r.ret, called |-> r.called, reached |-> TRUE,
               old |-> l1.dent, new |-> l2.dent])

---------------------------------------------------------------------------
(*                     the dentry syscalls as actions                      *)

NoCall ==
    [op |-> "none", path |-> "-", path2 |-> "-", flag |-> "0", ret |-> 0,
     called |-> {}, changed |-> {}, reached |-> FALSE, old |-> NoDent, new |-> NoDent,
     pre |-> {}, pre2 |-> {}, again |-> FALSE,
     mode |-> 0, handed |-> <<>>, perm0 |-> 0, bret |-> 0]

(* dentries whose state flags differ between two caches *)
Changed(ds1, ds2) == {d \in DentryNames : ds1[d].state # ds2[d].state}

Unlinkat ==
    /\ ncalls < MaxCalls
    /\ \E p \in Paths, flag \in UnlinkFlags, bret \in BackendRets :
        LET r == shim_do_unlinkat(dentries, p, flag, bret)
            t == PathTarget(p)
        IN /\ (bret = 0 \/ r.called # {})      \* a backend fails only if called
           /\ dentries' = r.ds
           /\ last' = [NoCall EXCEPT
                        !.op = "unlinkat", !.path = p, !.flag = flag, !.ret = r.ret,
                        !.bret = bret,
                        !.called = r.called, !.changed = Changed(dentries, r.ds),
                        !.old = t,
                        !.pre = IF t = NoDent THEN {} ELSE dentries[t].state,
                        !.again = /\ last.op = "unlinkat" /\ last.ret = 0
                                  /\ last.old = t /\ t # NoDent]
    /\ ncalls' = ncalls + 1
    /\ UNCHANGED <<hdl, sf, log, threads, locks>>
    /\ UNCHANGED mountVars

Rmdir ==
    /\ ncalls < MaxCalls
    /\ \E p \in Paths, bret \in BackendRets :
        LET r == shim_do_rmdir(dentries, p, bret)
            t == PathTarget(p)
        IN /\ (bret = 0 \/ r.called # {})
           /\ dentries' = r.ds
           /\ last' = [NoCall EXCEPT
                        !.op = "rmdir", !.path = p, !.ret = r.ret, !.bret = bret,
                        !.called = r.called, !.changed = Changed(dentries, r.ds),
                        !.old = t,
                        !.pre = IF t = NoDent THEN {} ELSE dentries[t].state]
    /\ ncalls' = ncalls + 1
    /\ UNCHANGED <<hdl, sf, log, threads, locks>>
    /\ UNCHANGED mountVars

Renameat ==
    /\ ncalls < MaxCalls
    /\ \E p1 \in Paths, p2 \in Paths, bret \in BackendRets :
        LET r == shim_do_renameat(dentries, p1, p2, bret) IN
        /\ (bret = 0 \/ r.called # {})
        /\ dentries' = r.ds
        /\ last' = [NoCall EXCEPT
                     !.op = "renameat", !.path = p1, !.path2 = p2, !.ret = r.ret,
                     !.called = r.called, !.changed = Changed(dentries, r.ds),
                     !.reached = r.reached, !.old = r.old, !.new = r.new,
                     !.pre = IF r.old = NoDent THEN {} ELSE dentries[r.old].state,
                     !.pre2 = IF r.new = NoDent THEN {} ELSE dentries[r.new].state]
    /\ ncalls' = ncalls + 1
    /\ UNCHANGED <<hdl, sf, log, threads, locks>>
    /\ UNCHANGED mountVars

(* ---- the chmod calls as actions ----                                    *)

ChmodRecord(op, p, mode, bret, r) ==
    [NoCall EXCEPT
        !.op = op, !.path = p, !.mode = mode, !.ret = r.ret, !.bret = bret,
        !.handed = r.handed, !.changed = Changed(dentries, r.ds),
        !.called = IF r.handed = <<>> THEN {} ELSE {"chmod"},
        !.old = r.dent,
        !.pre = IF r.dent = NoDent THEN {} ELSE dentries[r.dent].state,
        !.perm0 = IF r.dent = NoDent THEN 0 ELSE dentries[r.dent].perm]

Chmod ==
    /\ ncalls < MaxCalls
    /\ \E p \in ChmodPaths \cap (DentryNames \cup {"fault"}), mode \in Modes,
          bret \in BackendRets :
        LET r == shim_do_chmod(dentries, p, mode, bret) IN
        /\ (bret = 0 \/ r.handed # <<>>)
        /\ dentries' = r.ds
        /\ last' = ChmodRecord("chmod", p, mode, bret, r)
    /\ ncalls' = ncalls + 1
    /\ UNCHANGED <<hdl, sf, log, threads, locks>>
    /\ UNCHANGED mountVars

Fchmodat ==
    /\ ncalls < MaxCalls
    /\ \E p \in ChmodPaths, mode \in Modes, bret \in BackendRets :
        LET r == shim_do_fchmodat(dentries, p, mode, bret) IN
        /\ (bret = 0 \/ r.handed # <<>>)
        /\ dentries' = r.ds
        /\ last' = ChmodRecord("fchmodat", p, mode, bret, r)
    /\ ncalls' = ncalls + 1
    /\ UNCHANGED <<hdl, sf, log, threads, locks>>
    /\ UNCHANGED mountVars

Fchmod ==
    /\ ncalls < MaxCalls
    /\ \E fd \in Fds \cup {"fd:bad"}, mode \in Modes, bret \in BackendRets :
        LET r == shim_do_fchmod(dentries, hdl, fd, mode, bret) IN
        /\ (bret = 0 \/ r.handed # <<>>)
        /\ dentries' = r.ds
        /\ hdl' = r.h
        /\ last' = ChmodRecord("fchmod", fd, mode, bret, r)
    /\ ncalls' = ncalls + 1
    /\ UNCHANGED <<sf, log, threads, locks>>
    /\ UNCHANGED mountVars

(* ---- chown / fchownat / fchown ----                                     *)

(* lines 234-242: the lookup has returned l; uid and gid are not stored *)
FchownatLooked(g, l) ==
    IF l.ret < 0
    THEN [ret |-> l.ret, dent |-> NoDent,
          ds |-> IF g.dir # NoDent THEN put_dentry(l.ds, g.dir) ELSE l.ds]
    ELSE [ret |-> 0, dent |-> l.dent,
          ds |-> IF g.dir # NoDent THEN put_dentry(put_dentry(l.ds, l.dent), g.dir)
                 ELSE put_dentry(l.ds, l.dent)]

(* lines 231-235: get_dirfd_dentry has returned g *)
FchownatDir(p, g) ==
    IF g.ret < 0 THEN [ret |-> g.ret, dent |-> NoDent, ds |-> g.ds]
    ELSE FchownatLooked(g, path_lookupat(g.ds, g.dir, p, {"LOOKUP_FOLLOW"}))

(* lines 219-243 *)
shim_do_fchownat(ds, p) ==
    IF ~is_user_string_readable(p) THEN [ret |-> -EFAULT, dent |-> NoDent, ds |-> ds]
    ELSE FchownatDir(p, get_dirfd_dentry(ds, p))

(* lines 245-255: the handle is looked up and the call returns *)
shim_do_fchown(h, fd) ==
    IF fd \notin DOMAIN h THEN [ret |-> -EBADF, h |-> h]
    ELSE [ret |-> 0, h |-> get_fd_handle(h, fd)]

FchownatReturns(p, r) ==
    /\ dentries' = r.ds
    /\ last' = [NoCall EXCEPT !.op = "fchownat", !.path = p, !.ret = r.ret,
                              !.old = r.dent]

Fchownat ==
    /\ ncalls < MaxCalls
    /\ \E p \in ChmodPaths : FchownatReturns(p, shim_do_fchownat(dentries, p))
    /\ ncalls' = ncalls + 1
    /\ UNCHANGED <<hdl, sf, log, threads, locks>>
    /\ UNCHANGED mountVars

FchownReturns(fd, r) ==
    /\ hdl' = r.h
    /\ last' = [NoCall EXCEPT !.op = "fchown", !.path = fd, !.ret = r.ret]

Fchown ==
    /\ ncalls < MaxCalls
    /\ \E fd \in Fds \cup {"fd:bad"} : FchownReturns(fd, shim_do_fchown(hdl, fd))
    /\ ncalls' = ncalls + 1
    /\ UNCHANGED <<dentries, sf, log, threads, locks>>
    /\ UNCHANGED mountVars

---------------------------------------------------------------------------
(*          THE DENTRY SYSCALLS RUN BY CONCURRENT THREADS                  *)
(* Each thread runs one call at a time.  A call is cut where it takes or   *)
(* releases a reference, where it takes or releases a lock, and around     *)
(* the code that reads or writes what other threads can reach.             *)

Threads == {"t1", "t2"}

MaxThreadCalls == 2    \* calls started by all threads together

IdleThread == [pc |-> "idle"]

(* the locals of a call in progress.  wrote: the dentries whose flags the  *)
(* last step wrote; held: the locks the thread held while writing them;    *)
(* beside: the threads that were inside unlinkat on the same dentry when   *)
(* this call's lookup returned it                                          *)
ThreadFrame(op, path, path2, flag) ==
    [op |-> op, pc |-> "enter", path |-> path, path2 |-> path2, flag |-> flag,
     dir |-> NoDent, dent |-> NoDent, dir2 |-> NoDent, dent2 |-> NoDent, ret |-> 0,
     wrote |-> {}, held |-> {}, at_lookup |-> 0, at_assert |-> <<>>, beside |-> {}]

HeldLocks(t) == {l \in DOMAIN locks : locks[l] = t}

(* references the process holds: g_process.root and g_process.cwd *)
ProcessRefs(d, root, cwd) ==
    (IF d = root THEN 1 ELSE 0) + (IF d = cwd THEN 1 ELSE 0)

(* a call returns: its thread is idle again *)
ThreadReturns(t, f, ret) ==
    /\ threads' = [threads EXCEPT ![t] = IdleThread]
    /\ last' = [op |-> f.op, thread |-> t, path |-> f.path, ret |-> ret,
                dent |-> f.dent, dent2 |-> f.dent2,
                chroots |-> IF f.op = "chroot" /\ ret = 0
                            THEN last.chroots \cup {f.dent} ELSE last.chroots,
                unlinked |-> IF f.op = "unlinkat" /\ ret = 0
                             THEN last.unlinked \cup
                                    {[thread |-> t, dent |-> f.dent, beside |-> f.beside]}
                             ELSE last.unlinked]

(* a call goes on at the position its frame names *)
ThreadGoes(t, f) == threads' = [threads EXCEPT ![t] = f] /\ UNCHANGED last

(* a step that takes references: the call returns, or goes on *)
ThreadMoves(t, r) ==
    /\ dentries' = r.ds
    /\ IF r.f.pc = "return" THEN ThreadReturns(t, r.f, r.f.ret) ELSE ThreadGoes(t, r.f)

(* a step that writes dentry flags and goes to the out: label *)
ThreadWrites(t, f, r) ==
    /\ dentries' = r.ds
    /\ ThreadGoes(t, [f EXCEPT !.pc = "out", !.ret = r.ret,
                               !.wrote = Changed(dentries, r.ds),
                               !.held = HeldLocks(t)])

(* the lookup of the call's first path, under directory dir, has returned  *)
(* l; at_lookup is the ref_count the caller's reference brought it to      *)
LookedUp(f, dir, l, next) ==
    IF l.ret < 0
    THEN [ds |-> l.ds, f |-> [f EXCEPT !.pc = "out", !.dir = dir, !.ret = l.ret]]
    ELSE [ds |-> l.ds,
          f |-> [f EXCEPT !.pc = next, !.dir = dir, !.dent = l.dent,
                          !.at_lookup = l.ds[l.dent].ref_count]]

(* ---- unlinkat ----                                                      *)

(* /d/f is on the chroot mount, whose d_ops has unlink; /p/q is on the     *)
(* proc mount, whose d_ops has none                                        *)
ThreadUnlinkPaths == {"/d/f", "rel:f", "/p/q", "fault"}

(* the threads other than t that are inside unlinkat with dentry d *)
InUnlinkat(t, d) ==
    {u \in Threads \ {t} : /\ threads[u].pc # "idle"
                           /\ threads[u].op = "unlinkat"
                           /\ threads[u].dent = d}

UnlinkatBeside(t, r) ==
    IF r.f.dent = NoDent THEN r ELSE [r EXCEPT !.f.beside = InUnlinkat(t, r.f.dent)]

(* lines 41-45: get_dirfd_dentry has returned g *)
UnlinkatLookup(f, g) ==
    IF g.ret < 0 THEN [ds |-> g.ds, f |-> [f EXCEPT !.pc = "return", !.ret = g.ret]]
    ELSE LookedUp(f, g.dir, path_lookupat(g.ds, g.dir, f.path, {"LOOKUP_NO_FOLLOW"}),
                  "check")

(* lines 31-45 *)
UnlinkatBegin(ds, f) ==
    IF ~is_user_string_readable(f.path)
    THEN [ds |-> ds, f |-> [f EXCEPT !.pc = "return", !.ret = -EFAULT]]
    ELSE IF f.flag = "AT_OTHER"
    THEN [ds |-> ds, f |-> [f EXCEPT !.pc = "return", !.ret = -EINVAL]]
    ELSE UnlinkatLookup(f, get_dirfd_dentry(ds, f.path))

(* lines 64-75: the backend has answered b *)
UnlinkatWrites(f, b) ==
    IF b.ret < 0 THEN [ds |-> b.ds, ret |-> b.ret]
    ELSE [ds |-> UnlinkFinish(b.ds, f.dent, f.flag = "AT_REMOVEDIR"), ret |-> 0]

(* lines 47-75 *)
UnlinkatChecks(ds, f, bret) ==
    IF NoParent(ds, f.dent) THEN [ds |-> ds, ret |-> -EACCES]
    ELSE IF UnlinkatMode(ds[f.dent].state, f.flag) < 0
    THEN [ds |-> ds, ret |-> UnlinkatMode(ds[f.dent].state, f.flag)]
    ELSE UnlinkatWrites(f, UnlinkBackend(ds, f.dent, bret))

UnlinkatEnter(t) ==
    /\ threads[t].pc = "idle"
    /\ ncalls < MaxThreadCalls
    /\ \E p \in ThreadUnlinkPaths, flag \in {"0", "AT_REMOVEDIR"} :
          ThreadMoves(t, UnlinkatBeside(t, UnlinkatBegin(dentries,
                                              ThreadFrame("unlinkat", p, "-", flag))))
    /\ ncalls' = ncalls + 1
    /\ UNCHANGED <<hdl, sf, log, locks>>
    /\ UNCHANGED mountVars

UnlinkatBody(t) ==
    /\ threads[t].pc = "check"
    /\ \E bret \in BackendRets :
          /\ bret = 0 \/ "unlink" \in DOps(dentries[threads[t].dent].fs)
          /\ ThreadWrites(t, threads[t], UnlinkatChecks(dentries, threads[t], bret))
    /\ UNCHANGED <<ncalls, hdl, sf, log, locks>>
    /\ UNCHANGED mountVars

(* ---- renameat ----                                                      *)

(* the root is the dentry g_process.root and g_process.cwd point to *)
ThreadOldPaths == {"/d/f", "rel:f", "/"}
ThreadNewPaths == {"/n", "/m/h", "/d/f"}

(* lines 569-572 *)
RenameatOldLooked(r) ==
    IF r.f.pc = "lookup_new" /\ "DENTRY_NEGATIVE" \in r.ds[r.f.dent].state
    THEN [r EXCEPT !.f.pc = "out", !.f.ret = -ENOENT]
    ELSE r

(* lines 561-567: get_dirfd_dentry has returned g *)
RenameatOld(f, g) ==
    IF g.ret < 0 THEN [ds |-> g.ds, f |-> [f EXCEPT !.pc = "out", !.ret = g.ret]]
    ELSE RenameatOldLooked(
             LookedUp(f, g.dir, path_lookupat(g.ds, g.dir, f.path, {"LOOKUP_NO_FOLLOW"}),
                      "lookup_new"))

(* lines 557-572 *)
RenameatBegin(ds, f) ==
    IF ~is_user_string_readable(f.path) \/ ~is_user_string_readable(f.path2)
    THEN [ds |-> ds, f |-> [f EXCEPT !.pc = "return", !.ret = -EFAULT]]
    ELSE RenameatOld(f, get_dirfd_dentry(ds, f.path))

LookupNew_Borrowed(ds, dir, p) ==
    [path_lookupat(ds, dir, p, {"LOOKUP_NO_FOLLOW", "LOOKUP_CREATE"}) EXCEPT !.ds = ds]

(* line 578: the destination comes back with a reference of the caller *)
LookupNew(ds, dir, p) == path_lookupat(ds, dir, p, {"LOOKUP_NO_FOLLOW", "LOOKUP_CREATE"})

(* lines 578-580: the lookup has returned l *)
RenameatNewLooked(f, g, l) ==
    IF l.ret < 0
    THEN [ds |-> l.ds, f |-> [f EXCEPT !.pc = "out", !.dir2 = g.dir, !.ret = l.ret]]
    ELSE [ds |-> l.ds, f |-> [f EXCEPT !.pc = "assert", !.dir2 = g.dir, !.dent2 = l.dent]]

(* lines 574-580: get_dirfd_dentry has returned g *)
RenameatNew(f, g) ==
    IF g.ret < 0 THEN [ds |-> g.ds, f |-> [f EXCEPT !.pc = "out", !.ret = g.ret]]
    ELSE RenameatNewLooked(f, g, LookupNew(g.ds, g.dir, f.path2))

(* lines 583-584: the two assertions, on the counts read at that moment *)
RenameatAsserted(f, old_refs, new_refs) ==
    [f EXCEPT !.at_assert = <<old_refs, new_refs>>,
              !.pc = IF old_refs >= 2 /\ new_refs >= 2 THEN "do_rename" ELSE "abort"]

RenameatEnter(t) ==
    /\ threads[t].pc = "idle"
    /\ ncalls < MaxThreadCalls
    /\ \E p1 \in ThreadOldPaths, p2 \in ThreadNewPaths :
          ThreadMoves(t, RenameatBegin(dentries, ThreadFrame("renameat", p1, p2, "0")))
    /\ ncalls' = ncalls + 1
    /\ UNCHANGED <<hdl, sf, log, locks>>
    /\ UNCHANGED mountVars

RenameatLookupNew(t) ==
    /\ threads[t].pc = "lookup_new"
    /\ ThreadMoves(t, RenameatNew(threads[t], get_dirfd_dentry(dentries, threads[t].path2)))
    /\ UNCHANGED <<ncalls, hdl, sf, log, locks>>
    /\ UNCHANGED mountVars

RenameatAssert(t) ==
    /\ threads[t].pc = "assert"
    /\ ThreadGoes(t, RenameatAsserted(threads[t], dentries[threads[t].dent].ref_count,
                                      dentries[threads[t].dent2].ref_count))
    /\ UNCHANGED <<dentries, ncalls, hdl, sf, log, locks>>
    /\ UNCHANGED mountVars

(* line 586: do_rename has returned r *)
RenameatDone(t, bret, r) ==
    /\ bret = 0 \/ r.called # {}
    /\ ThreadWrites(t, threads[t], r)

RenameatDo(t) ==
    /\ threads[t].pc = "do_rename"
    /\ \E bret \in BackendRets :
          RenameatDone(t, bret, do_rename(dentries, threads[t].dent, threads[t].dent2, bret))
    /\ UNCHANGED <<ncalls, hdl, sf, log, locks>>
    /\ UNCHANGED mountVars

(* lines 76-82 and 588-597: the out: label of the two calls *)
ThreadPuts(ds, f) ==
    IF f.op = "renameat"
    THEN RenameOut(ds, <<f.dir, f.dent, f.dir2, f.dent2>>, RenameFail(f.ret)).ds
    ELSE UnlinkOut(ds, f.dir, f.dent, f.ret, {}).ds

ThreadOut(t) ==
    /\ threads[t].pc = "out"
    /\ dentries' = ThreadPuts(dentries, threads[t])
    /\ ThreadReturns(t, threads[t], threads[t].ret)
    /\ UNCHANGED <<ncalls, hdl, sf, log, locks>>
    /\ UNCHANGED mountVars

(* ---- chroot ----                                                        *)

ThreadRootPaths == {"/d", "/m", "/d/f"}

(* lines 645-651: the lookup has returned l *)
ChrootLooked(f, l) ==
    IF l.ret < 0 THEN [ds |-> l.ds, f |-> [f EXCEPT !.pc = "return", !.ret = l.ret]]
    ELSE [ds |-> l.ds, f |-> [f EXCEPT !.pc = "lock", !.dent = l.dent]]

ChrootBegin(ds, f) ==
    ChrootLooked(f, path_lookupat(ds, NoDent, f.path, {"LOOKUP_FOLLOW", "LOOKUP_DIRECTORY"}))

LockFree_Always(l) == TRUE

(* lock(l) goes on when no thread owns l *)
LockFree(l) == locks[l] = NoThread

ChrootEnter(t) ==
    /\ threads[t].pc = "idle"
    /\ ncalls < MaxThreadCalls
    /\ \E p \in ThreadRootPaths :
          ThreadMoves(t, ChrootBegin(dentries, ThreadFrame("chroot", p, "-", "0")))
    /\ ncalls' = ncalls + 1
    /\ UNCHANGED <<hdl, sf, log, locks>>
    /\ UNCHANGED mountVars

(* line 653 *)
ChrootLock(t) ==
    /\ threads[t].pc = "lock"
    /\ LockFree("fs_lock")
    /\ locks' = [locks EXCEPT !.fs_lock = t]
    /\ ThreadGoes(t, [threads[t] EXCEPT !.pc = "put_root"])
    /\ UNCHANGED <<dentries, ncalls, hdl, sf, log>>
    /\ UNCHANGED mountVars

(* line 654 *)
ChrootPutRoot(t) ==
    /\ threads[t].pc = "put_root"
    /\ dentries' = put_dentry(dentries, process.root)
    /\ ThreadGoes(t, [threads[t] EXCEPT !.pc = "store_root"])
    /\ UNCHANGED <<ncalls, hdl, sf, log, locks>>
    /\ UNCHANGED mountVars

(* line 655 *)
ChrootStoreRoot(t) ==
    /\ threads[t].pc = "store_root"
    /\ process' = [process EXCEPT !.root = threads[t].dent]
    /\ ThreadGoes(t, [threads[t] EXCEPT !.pc = "unlock"])
    /\ UNCHANGED <<dentries, ncalls, hdl, sf, log, locks>>
    /\ UNCHANGED <<mount_list, mount_migrated, image>>

(* lines 656-658 *)
ChrootUnlock(t) ==
    /\ threads[t].pc = "unlock"
    /\ locks' = [locks EXCEPT !.fs_lock = NoThread]
    /\ ThreadReturns(t, threads[t], 0)
    /\ UNCHANGED <<dentries, ncalls, hdl, sf, log>>
    /\ UNCHANGED mountVars

---------------------------------------------------------------------------
(*                MOUNT TABLE: LibOS/shim/src/fs/shim_fs.c                 *)

ENODEV == 19
EEXIST == 17

NoFs == "-"            \* NULL struct shim_fs*
NoMount == 0           \* NULL struct shim_mount*

(* lines 22-33: the built-in filesystem types, and the operations of       *)
(* their fs_ops the mount code consults                                    *)
BuiltinFs ==
    {"chroot", "proc", "dev", "sys", "tmp", "pipe", "fifo", "socket", "epoll",
     "eventfd"}

FsOps(fs) ==
    CASE fs \in {"chroot", "tmp"}        -> {"mount", "checkpoint", "migrate"}
      [] fs \in {"proc", "dev", "sys"}   -> {"mount"}
      [] OTHER                           -> {}

(* filesystem type names a caller gives: built in with or without a mount  *)
(* operation, or unknown                                                   *)
FsNames == {"chroot", "proc", "pipe", "nofs"}

(* lines 351-359, over the builtin_fs of a build *)
find_fs_in(registry, name) == IF name \in registry THEN name ELSE NoFs

find_fs(name) == find_fs_in(BuiltinFs, name)

(* URIs are byte strings; the empty one is what a NULL uri is stored as *)
MountUris == {<<>>, <<"f">>, <<"f", "a">>}
QueryUris == {<<"f">>, <<"f", "a", "b">>, <<"g">>}

(* mount point paths, the dentry each names, and their strlen *)
MDents == {"/", "/a", "/a/b", "/c", "/c/d", "/proc", "/dev", "/dev/tty", "/sys"}
MountPaths == {"", "/", "/a", "/a/b", "/c/d"}

strlen(p) ==
    CASE p = ""  -> 0
      [] p \in {"/", "."} -> 1
      [] p \in {"/a", "/c"} -> 2
      [] p = "/proc" -> 5
      [] p = "/dev/tty" -> 8
      [] OTHER   -> 4

MParent(d) ==
    CASE d = "/"    -> NoDent
      [] d = "/a/b" -> "/a"
      [] d = "/c/d" -> "/c"
      [] d = "/dev/tty" -> "/dev"
      [] OTHER      -> "/"

(* lines 401-424: find_last_component, by the length of the last component *)
find_last_component(p) == IF p \in {"", "/"} THEN 0 ELSE 1

(* names the host has an object for: /a is a directory there, /c is not    *)
Backed(d) == d \in {"/", "/a"}

(* the dentry cache before anything is mounted: the root dentry alone *)
MDentry(d) ==
    [parent |-> MParent(d), cached |-> (d = "/"), state |-> {},
     fs |-> NoFs, mount |-> NoMount, mounted |-> NoMount,
     ref_count |-> IF d = "/" THEN 1 ELSE 0]

(* resolve the components from the root down to d: a cached valid dentry   *)
(* is taken as it is, a miss is validated against the backend, and a       *)
(* missing component becomes a synthetic directory under make-synthetic    *)
(* and a cached negative dentry otherwise                                  *)
RECURSIVE WalkFromRoot(_, _, _)
WalkFromRoot(ds, d, synth) ==
    IF d = "/" THEN [ret |-> 0, ds |-> ds]
    ELSE
    LET up == WalkFromRoot(ds, MParent(d), synth) IN
    IF up.ret < 0 THEN up
    ELSE
    LET e   == up.ds[d]
        par == up.ds[MParent(d)]
        in  == [e EXCEPT !.cached = TRUE,
                         !.fs = IF e.cached THEN @ ELSE par.fs,
                         !.mount = IF e.cached THEN @ ELSE par.mount]
    IN
    IF e.cached /\ "DENTRY_VALID" \in e.state /\ "DENTRY_NEGATIVE" \notin e.state
    THEN up
    ELSE IF Backed(d)
    THEN [ret |-> 0,
          ds |-> [up.ds EXCEPT ![d] = [in EXCEPT !.state =
                    (@ \ {"DENTRY_NEGATIVE"}) \cup {"DENTRY_VALID", "DENTRY_ISDIRECTORY"}]]]
    ELSE IF synth
    THEN [ret |-> 0,
          ds |-> [up.ds EXCEPT ![d] = [in EXCEPT !.state =
                    (@ \ {"DENTRY_NEGATIVE"})
                        \cup {"DENTRY_VALID", "DENTRY_ISDIRECTORY", "DENTRY_SYNTHETIC"}]]]
    ELSE [ret |-> -ENOENT,
          ds |-> [up.ds EXCEPT ![d] = [in EXCEPT !.state = @ \cup {"DENTRY_NEGATIVE"}]]]

(* the walk has returned w: the dentry gets one more reference *)
LookupReturns(w, d) ==
    IF w.ret < 0 THEN [ret |-> w.ret, ds |-> w.ds]
    ELSE [ret |-> 0, ds |-> get_dentry(w.ds, d)]

(* _path_lookupat(g_dentry_root, path, flags, &dent): the dentry with one  *)
(* more reference, or an error                                             *)
_path_lookupat(ds, d, synth) == LookupReturns(WalkFromRoot(ds, d, synth), d)

(* what the environment answers during one mount_fs: the backend's mount   *)
(* operation, the lookup of the mount point, and __del_dentry_tree         *)
EnvOk == [mnt |-> 0, lk |-> 0, del |-> 0]
MountEnvs ==
    {EnvOk, [EnvOk EXCEPT !.mnt = -EACCES], [EnvOk EXCEPT !.lk = -ENOENT],
     [EnvOk EXCEPT !.del = -EIO]}

(* a mount record: lines 483-487 and 367 *)
MountRec(id, fs, uri, path, point) ==
    [id |-> id, fs |-> fs, uri |-> uri, path |-> path, mount_point |-> point]

(* the dentries cached below dent leave the cache *)
RECURSIVE IsBelow(_, _)
IsBelow(d, top) ==
    /\ d # "/"
    /\ (MParent(d) = top \/ IsBelow(MParent(d), top))

__del_dentry_tree(ds, dent) ==
    [d \in DOMAIN ds |-> IF IsBelow(d, dent) THEN MDentry(d) ELSE ds[d]]

(* lines 381-394: flag the mount point and its ancestors synthetic, up to  *)
(* the first one already flagged                                           *)
RECURSIVE PropagateSynthetic(_, _)
PropagateSynthetic(ds, dent) ==
    IF dent = NoDent THEN ds
    ELSE IF "DENTRY_SYNTHETIC" \in ds[dent].state THEN put_dentry(ds, dent)
    ELSE
    LET parent == ds[dent].parent
        s1 == [ds EXCEPT ![dent].state = @ \cup {"DENTRY_SYNTHETIC"}]
        s2 == IF parent # NoDent THEN get_dentry(s1, parent) ELSE s1
    IN  PropagateSynthetic(put_dentry(s2, dent), parent)

__mount_fs_AddHead(ds, list, mount, dent, del) ==
    LET s1 == [get_dentry(ds, dent) EXCEPT ![dent].mounted = mount.id] IN
    IF del < 0 THEN [ret |-> del, ds |-> s1, list |-> list]
    ELSE [ret |-> 0,
          ds |-> PropagateSynthetic(__del_dentry_tree(s1, dent), dent),
          list |-> <<[mount EXCEPT !.mount_point = dent]>> \o list]

__mount_fs_NoWalk(ds, list, mount, dent, del) ==
    [ret |-> del,
     ds |-> [ds EXCEPT ![dent].mounted = mount.id],
     list |-> IF del < 0 THEN list ELSE Append(list, [mount EXCEPT !.mount_point = dent])]

(* lines 361-397 *)
__mount_fs(ds, list, mount, dent, del) ==
    LET s1 == [get_dentry(ds, dent) EXCEPT ![dent].mounted = mount.id]
        m  == [mount EXCEPT !.mount_point = dent]
    IN
    IF del < 0 THEN [ret |-> del, ds |-> s1, list |-> list]
    ELSE [ret |-> 0,
          ds |-> PropagateSynthetic(__del_dentry_tree(s1, dent), dent),
          list |-> Append(list, m)]

AlreadyMounted_Never(ds, dent) == FALSE

(* line 503 *)
AlreadyMounted(ds, dent) == dent # "/" /\ "DENTRY_VALID" \in ds[dent].state

(* lines 542-549: out_with_unlock and out.  lookup: this call looked the   *)
(* parent up and releases it (need_parent_put); at: the step the call      *)
(* leaves from                                                             *)
MountOut(lookup, dent, r, ds, list, at) ==
    [ret |-> r,
     ds |-> IF lookup THEN put_dentry(ds, MParent(dent)) ELSE ds,
     list |-> list, at |-> at]

(* lines 536-540 *)
PutUnless(keep, ds, dent) == IF keep THEN ds ELSE put_dentry(ds, dent)

(* lines 525-540: __mount_fs has returned m *)
MountAttached(lookup, dent, id, fs, dentp, m) ==
    MountOut(lookup, dent, m.ret,
             PutUnless(dentp /\ m.ret = 0,
                       [m.ds EXCEPT
                           ![dent].state =
                               IF m.ret = 0 THEN @ \ {"DENTRY_NEGATIVE"} ELSE @,
                           ![dent].mount = id,
                           ![dent].fs = fs],
                       dent),
             m.list, IF m.ret < 0 THEN "del_tree" ELSE "done")

(* lines 503-525: s_d is the cache with the mount point's dentry in it *)
MountAtDentry(lookup, list, id, fs, uri, dent, dentp, e, s_d) ==
    IF AlreadyMounted(s_d, dent)
    THEN MountOut(lookup, dent, -EEXIST, s_d, list, "valid")
    ELSE IF e.lk < 0
    THEN MountOut(lookup, dent, e.lk,
                  [s_d EXCEPT ![dent].state = @ \ {"DENTRY_MOUNTPOINT"}], list,
                  "lookup")
    ELSE MountAttached(lookup, dent, id, fs, dentp,
             __mount_fs([s_d EXCEPT ![dent].state =
                            @ \cup {"DENTRY_MOUNTPOINT", "DENTRY_VALID",
                                    "DENTRY_ISDIRECTORY"}],
                        list, MountRec(id, fs, uri, dent, NoDent), dent, e.del))

(* lines 493-501: the root dentry, the cached dentry of the mount point,   *)
(* or a new one                                                            *)
MountPointDentry(ds, dent, fs, id) ==
    IF find_last_component(dent) = 0 THEN ds
    ELSE IF ds[dent].cached THEN get_dentry(ds, dent)
    ELSE [ds EXCEPT ![dent] =
            [@ EXCEPT !.cached = TRUE, !.fs = fs, !.mount = id, !.ref_count = 1]]

(* lines 468-501: the parent lookup, if any, has returned pl *)
MountAfterParent(lookup, list, id, fs, uri, dent, dentp, e, pl) ==
    IF pl.ret < 0
    THEN [ret |-> pl.ret, ds |-> pl.ds, list |-> list, at |-> "parent"]
    ELSE IF e.mnt < 0 THEN MountOut(lookup, dent, e.mnt, pl.ds, list, "mount")
    ELSE MountAtDentry(lookup, list, id, fs, uri, dent, dentp, e,
                       MountPointDentry(pl.ds, dent, fs, id))

(* lines 433-549.  given: the caller supplies the parent dentry; dentp:    *)
(* the caller asks for the mounted dentry; id: the record alloc_mount      *)
(* returns; e: the environment's answers.  The result names, in at, the    *)
(* step the call left from                                                 *)
mount_fs(ds, list, id, type, uri, mount_point, given, dentp, make_ancestor, e) ==
    IF find_fs(type) = NoFs \/ "mount" \notin FsOps(find_fs(type))
    THEN [ret |-> -ENODEV, ds |-> ds, list |-> list, at |-> "find_fs"]
    ELSE IF strlen(mount_point) = 0
    THEN [ret |-> -EINVAL, ds |-> ds, list |-> list, at |-> "strlen"]
    ELSE IF ~given /\ find_last_component(mount_point) > 0
    THEN MountAfterParent(TRUE, list, id, find_fs(type), uri, mount_point, dentp, e,
                          _path_lookupat(ds, MParent(mount_point), make_ancestor))
    ELSE MountAfterParent(FALSE, list, id, find_fs(type), uri, mount_point, dentp, e,
                          [ret |-> 0, ds |-> ds])

(* lines 587-610: the scan, with found and longest_path as they stand      *)
(* after each entry                                                        *)
IsPrefix(s, t) == Len(s) <= Len(t) /\ SubSeq(t, 1, Len(s)) = s

PathLonger_Any(a, b) == TRUE

PathLonger(a, b) == a > b

RECURSIVE ScanMounts(_, _, _, _, _)
ScanMounts(list, i, uri, found, longest_path) ==
    IF i > Len(list) THEN found
    ELSE
    LET mount == list[i] IN
    IF mount.uri = <<>> THEN ScanMounts(list, i + 1, uri, found, longest_path)
    ELSE IF IsPrefix(mount.uri, uri) /\ PathLonger(strlen(mount.path), longest_path)
    THEN ScanMounts(list, i + 1, uri, mount.id, strlen(mount.path))
    ELSE ScanMounts(list, i + 1, uri, found, longest_path)

find_mount_from_uri(list, uri) == ScanMounts(list, 1, uri, NoMount, 0)

---------------------------------------------------------------------------
(*                    MOUNT CALLS: mount_fs and the table scan             *)

MaxMounts == 2         \* mount_fs calls per behaviour

(* one mount_fs call.  A supplied parent is the root dentry, as in         *)
(* __mount_sys (lines 116, 136)                                            *)
MountFsReturns(type, path, dentp, r) ==
    /\ dentries' = r.ds
    /\ mount_list' = r.list
    /\ last' = [op |-> "mount_fs", type |-> type, path |-> path,
                dentp |-> dentp, ret |-> r.ret, at |-> r.at,
                ds0 |-> dentries, list0 |-> mount_list]

MountFsCall ==
    \E type \in FsNames, uri \in MountUris, path \in MountPaths,
       given \in BOOLEAN, make_ancestor \in BOOLEAN, e \in MountEnvs :
        /\ ncalls < MaxMounts
        /\ given => (path # "" /\ MParent(path) = "/")
        /\ MountFsReturns(type, path, path = "/",
                          mount_fs(dentries, mount_list, ncalls + 1, type, uri, path,
                                   given, path = "/", make_ancestor, e))
        /\ ncalls' = ncalls + 1
        /\ UNCHANGED <<hdl, sf, log, threads, locks, mount_migrated, image, process>>

(* one find_mount_from_uri call *)
FindMountFromUri ==
    \E uri \in QueryUris :
        /\ last.op # "find_mount_from_uri"
        /\ last' = [op |-> "find_mount_from_uri", uri |-> uri,
                    found |-> find_mount_from_uri(mount_list, uri)]
        /\ UNCHANGED <<dentries, ncalls, hdl, sf, log, threads, locks, mountVars>>

---------------------------------------------------------------------------
(*             BOOT MOUNTS: init_mount_root and init_mount                 *)

MaxDeclared == 3       \* mounts a manifest declares

(* line 64: alloc_mount hands out a record no dentry or table entry names  *)
alloc_mount(ds, list) ==
    LET used == {0} \cup {list[i].id : i \in 1..Len(list)}
                    \cup {ds[d].mount : d \in DOMAIN ds}
                    \cup {ds[d].mounted : d \in DOMAIN ds}
    IN  1 + (CHOOSE m \in used : \A x \in used : x <= m)

(* the environment's answers for the n-th mount_fs of one handler: at most *)
(* the k-th of them meets a failure                                        *)
EnvAt(k, e, n) == IF n = k THEN e ELSE EnvOk

(* what a boot handler works on: its return value, the dentry cache, the   *)
(* mount table, the mount_fs calls made so far, the working directory      *)
BootState(ds, list, cwd) ==
    [ret |-> 0, ds |-> ds, list |-> list, log |-> <<>>, cwd |-> cwd]

(* mount_fs has returned r: log gets the manifest index j (0 for the root  *)
(* and system mounts) and the result                                       *)
BootMounted(st, j, path, r) ==
    [st EXCEPT !.ret = r.ret, !.ds = r.ds, !.list = r.list,
               !.log = Append(@, [j |-> j, path |-> path, ret |-> r.ret])]

(* one mount_fs of a boot handler, skipped once an earlier one has failed *)
BootMount(st, j, type, uri, path, given, dentp, make_ancestor, k, e) ==
    IF st.ret < 0 THEN st
    ELSE BootMounted(st, j, path,
                     mount_fs(st.ds, st.list, alloc_mount(st.ds, st.list), type, uri,
                              path, given, dentp, make_ancestor,
                              EnvAt(k, e, Len(st.log) + 1)))

URI_PREFIX_FILE == <<"f">>
URI_PREFIX_DEV_tty == <<"d">>

(* fs.root of the manifest: unparsable, absent, or a type and a uri *)
NoKey == "-"
RootCfgs ==
    {[ok |-> FALSE, type |-> NoKey, uri |-> <<>>],
     [ok |-> TRUE, type |-> NoKey, uri |-> <<>>],
     [ok |-> TRUE, type |-> "tmp", uri |-> <<"f", "a">>]}

(* lines 70-110 *)
__mount_root(st, rootcfg, k, e) ==
    IF ~rootcfg.ok THEN [st EXCEPT !.ret = -EINVAL]
    ELSE IF rootcfg.type # NoKey
    THEN BootMount(st, 0, rootcfg.type, rootcfg.uri, "/", FALSE, TRUE, FALSE, k, e)
    ELSE BootMount(st, 0, "chroot", URI_PREFIX_FILE, "/", FALSE, TRUE, FALSE, k, e)

(* lines 116, 123, 129, 136: the system mounts, each under a parent the    *)
(* caller supplies; /dev is mounted with dentp                             *)
SysMounts ==
    <<[type |-> "proc", uri |-> <<>>, path |-> "/proc", dentp |-> FALSE],
      [type |-> "dev", uri |-> <<>>, path |-> "/dev", dentp |-> TRUE],
      [type |-> "chroot", uri |-> URI_PREFIX_DEV_tty, path |-> "/dev/tty",
       dentp |-> FALSE],
      [type |-> "sys", uri |-> <<>>, path |-> "/sys", dentp |-> FALSE]>>

(* lines 112-142: one after the other, left at the first failure *)
RECURSIVE MountSysFrom(_, _, _, _)
MountSysFrom(st, i, k, e) ==
    IF i > Len(SysMounts) THEN st
    ELSE MountSysFrom(BootMount(st, 0, SysMounts[i].type, SysMounts[i].uri,
                                SysMounts[i].path, TRUE, SysMounts[i].dentp, FALSE,
                                k, e),
                      i + 1, k, e)

__mount_sys(st, k, e) == MountSysFrom(st, 1, k, e)

AlreadyMigrated_Never(migrated) == FALSE

(* lines 299 and 315: if (mount_migrated) return 0 *)
AlreadyMigrated(migrated) == migrated

(* lines 305-309: __mount_root has returned r *)
MountSysUnlessFailed(r, k, e) == IF r.ret < 0 THEN r ELSE __mount_sys(r, k, e)

(* lines 298-312 *)
init_mount_root(st, migrated, rootcfg, k, e) ==
    IF AlreadyMigrated(migrated) THEN st
    ELSE MountSysUnlessFailed(__mount_root(st, rootcfg, k, e), k, e)

(* the mounts a manifest may declare under fs.mount: type, uri and path,   *)
(* the last of them without a path key                                     *)
Declared ==
    {[type |-> "chroot", uri |-> <<"f">>, path |-> "/a"],
     [type |-> "chroot", uri |-> <<"f", "a">>, path |-> "/a/b"],
     [type |-> "proc", uri |-> <<>>, path |-> "/c/d"],
     [type |-> "chroot", uri |-> <<"f">>, path |-> "/"],
     [type |-> "chroot", uri |-> <<"f">>, path |-> NoKey]}

(* the orders in which the configuration may expose them *)
Configs ==
    UNION {{c \in [1..n -> Declared] : \A a, b \in 1..n : c[a] = c[b] => a = b}
           : n \in 0..MaxDeclared}

(* lines 144-225 *)
__mount_one_other(st, j, mount, k, e) ==
    IF mount.path = "/"
    THEN [st EXCEPT !.ret = -EEXIST,
                    !.log = Append(@, [j |-> j, path |-> mount.path, ret |-> -EEXIST])]
    ELSE BootMount(st, j, mount.type, mount.uri, mount.path, FALSE, FALSE, TRUE, k, e)

PassLength_Descending(i, longest) == longest - i

(* lines 282-284: the path length pass i applies *)
PassLength(i, longest) == i

(* lines 282-291: the passes over the lengths, each over the declared      *)
(* mounts in configuration order, left at the first failure                *)
RECURSIVE ApplyByLength(_, _, _, _, _, _, _), ApplyNext(_, _, _, _, _, _, _)
ApplyNext(r, cfg, i, j, longest, k, e) ==
    IF r.ret < 0 THEN r ELSE ApplyByLength(r, cfg, i, j + 1, longest, k, e)

ApplyByLength(st, cfg, i, j, longest, k, e) ==
    IF i > longest THEN st
    ELSE IF j > Len(cfg) THEN ApplyByLength(st, cfg, i + 1, 1, longest, k, e)
    ELSE IF strlen(cfg[j].path) # PassLength(i, longest)
    THEN ApplyByLength(st, cfg, i, j + 1, longest, k, e)
    ELSE ApplyNext(__mount_one_other(st, j, cfg[j], k, e), cfg, i, j, longest, k, e)

(* lines 227-296 *)
__mount_others(st, cfg, k, e) ==
    IF Len(cfg) = 0 THEN st
    ELSE IF \E i \in 1..Len(cfg) : cfg[i].path = NoKey
    THEN [st EXCEPT !.ret = -ENOENT]
    ELSE
    LET lengths == [i \in 1..Len(cfg) |-> strlen(cfg[i].path)]
        longest == CHOOSE m \in {lengths[i] : i \in 1..Len(cfg)} :
                       \A i \in 1..Len(cfg) : lengths[i] <= m
    IN  ApplyByLength(st, cfg, 0, 1, longest, k, e)

(* fs.start_dir of the manifest: absent, or a directory to start in *)
StartDirs == {NoKey, "/a", "/c"}

(* lines 337-344: the lookup of fs.start_dir has returned l *)
StartDirLooked(r, start_dir, l) ==
    IF l.ret < 0 THEN [r EXCEPT !.ret = l.ret, !.ds = l.ds]
    ELSE [r EXCEPT !.ds = put_dentry(l.ds, r.cwd), !.cwd = start_dir]

(* lines 320-345: __mount_others has returned r *)
EnterStartDir(r, start_dir) ==
    IF r.ret < 0 \/ start_dir = NoKey THEN r
    ELSE StartDirLooked(r, start_dir, _path_lookupat(r.ds, start_dir, FALSE))

(* lines 314-349 *)
init_mount(st, migrated, cfg, start_dir, k, e) ==
    IF AlreadyMigrated(migrated) THEN st
    ELSE EnterStartDir(__mount_others(st, cfg, k, e), start_dir)

(* the manifests a process may start with: fs.root, fs.mount, fs.start_dir *)
Manifests ==
    [root : RootCfgs, mount : Configs, start_dir : StartDirs]

(* the k-th mount_fs that may meet a failure: none, or one of the calls    *)
(* a handler can make                                                      *)
FailAt == 0..(MaxDeclared + 2)

(* the process boots, or has restored the whole of a checkpoint *)
BootPhase ==
    \/ image.phase = "live"
    \/ image.phase = "rs" /\ image.ret = 0 /\ image.pos = Len(image.entries)

BootRecord(op, r) ==
    [op |-> op, ret |-> r.ret, applied |-> r.log, ds0 |-> dentries,
     list0 |-> mount_list, migrated0 |-> mount_migrated, process0 |-> process]

(* a boot call has returned r *)
BootReturns(op, r) ==
    /\ dentries' = r.ds
    /\ mount_list' = r.list
    /\ process' = [process EXCEPT !.cwd = r.cwd]
    /\ last' = BootRecord(op, r)

(* init_mount_root, the first boot call of a process *)
InitMountRootCall ==
    \E k \in FailAt, e \in MountEnvs :
        /\ ncalls = 0
        /\ BootPhase
        /\ (k = 0) = (e = EnvOk)
        /\ BootReturns("init_mount_root",
                       init_mount_root(BootState(dentries, mount_list, process.cwd),
                                       mount_migrated, process.manifest.root, k, e))
        /\ ncalls' = ncalls + 1
        /\ UNCHANGED <<hdl, sf, log, threads, locks, mount_migrated, image>>

(* init_mount, called once init_mount_root has returned 0 *)
InitMountCall ==
    \E k \in FailAt, e \in MountEnvs :
        /\ ncalls = 1
        /\ last.op = "init_mount_root" /\ last.ret = 0
        /\ BootPhase
        /\ (k = 0) = (e = EnvOk)
        /\ BootReturns("init_mount",
                       init_mount(BootState(dentries, mount_list, process.cwd),
                                  mount_migrated, process.manifest.mount,
                                  process.manifest.start_dir, k, e))
        /\ ncalls' = ncalls + 1
        /\ UNCHANGED <<hdl, sf, log, threads, locks, mount_migrated, image>>

---------------------------------------------------------------------------
(*          CHECKPOINT AND RESTORE OF THE MOUNT TABLE: lines 612-780       *)

Null == "null"

FsSeen_Never(img, fs) == FALSE

(* lines 626-628: GET_FROM_CP_MAP(obj) found the descriptor *)
FsSeen(img, fs) == fs \in img.map.fs

(* lines 618-645: CP_FUNC(fs) *)
CP_FUNC_fs(img, fs) ==
    IF FsSeen(img, fs) THEN img
    ELSE [img EXCEPT
            !.map.fs = @ \cup {fs},
            !.entries = Append(@, [kind |-> "fs", name |-> fs,
                                   fs_ops |-> Null, d_ops |-> Null])]

MountSeen_Never(img, mount) == FALSE

(* lines 666-668: GET_FROM_CP_MAP(obj) found the mount *)
MountSeen(img, mount) == mount.id \in img.map.mount

(* lines 661-718: CP_FUNC(mount).  cpdata is the blob of the backend's     *)
(* checkpoint hook, when the backend has one                               *)
CP_FUNC_mount(img, mount) ==
    IF MountSeen(img, mount) THEN img
    ELSE
    LET i1 == [img EXCEPT !.map.mount = @ \cup {mount.id}]
        cpdata == IF "checkpoint" \in FsOps(mount.fs) THEN {mount.id} ELSE {}
        i2 == CP_FUNC_fs(i1, mount.fs)
    IN  [i2 EXCEPT !.entries =
            Append(@, [kind |-> "mount", id |-> mount.id, fs |-> mount.fs,
                       uri |-> mount.uri, path |-> mount.path,
                       mount_point |-> mount.mount_point, cpdata |-> cpdata])]

(* lines 756-770: CP_FUNC(all_mounts) *)
RECURSIVE CpWalk(_, _, _)
CpWalk(img, list, i) ==
    IF i > Len(list) THEN img
    ELSE CpWalk(CP_FUNC_mount(img, list[i]), list, i + 1)

CP_FUNC_all_mounts(img, list) ==
    [CpWalk(img, list, 1) EXCEPT !.entries = Append(@, [kind |-> "all_mounts"])]

(* lines 647-659: RS_FUNC(fs); the result is the descriptor with its       *)
(* operation tables, or no descriptor and -EINVAL                          *)
RS_FUNC_fs(registry, entry) ==
    LET builtin_fs == find_fs_in(registry, entry.name) IN
    IF builtin_fs = NoFs THEN [ret |-> -EINVAL, fs |-> {}]
    ELSE [ret |-> 0,
          fs |-> {[name |-> entry.name, fs_ops |-> builtin_fs, d_ops |-> builtin_fs]}]

(* line 738: the migrate hook is called for this entry *)
MigrateCalled(entry) == "migrate" \in FsOps(entry.fs) /\ entry.cpdata # {}

(* lines 738-743: mount->data, which the checkpoint wrote as NULL, is       *)
(* stored only when the hook ran and returned 0                            *)
MigrateData(entry, mig) ==
    IF MigrateCalled(entry) /\ mig = 0 THEN entry.cpdata ELSE Null

(* lines 720-754: RS_FUNC(mount), with mig the result of the migrate hook; *)
(* no path of the function returns anything but the 0 of END_RS_FUNC       *)
RS_FUNC_mount(ds, list, entry, mig) ==
    [ds |-> IF entry.mount_point # NoDent THEN get_dentry(ds, entry.mount_point)
            ELSE ds,
     data |-> MigrateData(entry, mig),
     list |-> Append(list, MountRec(entry.id, entry.fs, entry.uri, entry.path,
                                    entry.mount_point)),
     ret |-> 0]

(* a mount of the table reached through another object's checkpoint:       *)
(* DO_CP(mount, ...) outside the table walk, once per checkpoint           *)
CpMount ==
    \E i \in 1..Len(mount_list) :
        /\ image.phase = "cp"
        /\ ncalls = 0
        /\ image' = CP_FUNC_mount(image, mount_list[i])
        /\ ncalls' = 1
        /\ last' = [op |-> "cp_mount", id |-> mount_list[i].id]
        /\ UNCHANGED <<dentries, hdl, sf, log, threads, locks, mount_list, mount_migrated, process>>

(* the table walk of the checkpoint *)
CpAllMounts ==
    /\ image.phase = "cp"
    /\ \A n \in 1..Len(image.entries) : image.entries[n].kind # "all_mounts"
    /\ image' = CP_FUNC_all_mounts(image, mount_list)
    /\ last' = [op |-> "cp_all_mounts"]
    /\ UNCHANGED <<dentries, ncalls, hdl, sf, log, threads, locks, mount_list, mount_migrated, process>>

(* the builds that may restore an image: this one, and one without proc *)
Registries == {BuiltinFs, BuiltinFs \ {"proc"}}

(* the finished image arrives in a new process, whose mount table is empty *)
ReceiveImage ==
    \E registry \in Registries :
        /\ image.phase = "cp"
        /\ \E n \in 1..Len(image.entries) : image.entries[n].kind = "all_mounts"
        /\ image' = [image EXCEPT !.phase = "rs", !.src = mount_list,
                                  !.registry = registry]
        /\ mount_list' = <<>>
        /\ mount_migrated' = FALSE
        /\ ncalls' = 0
        /\ last' = [op |-> "receive"]
        /\ UNCHANGED <<dentries, hdl, sf, log, threads, locks, process>>

(* the restore function of a mount entry has returned r *)
RestoreMount(entry, mig, r) ==
    /\ dentries' = r.ds
    /\ mount_list' = r.list
    /\ image' = [image EXCEPT !.pos = @ + 1, !.ret = r.ret]
    /\ last' = [op |-> "restore", kind |-> entry.kind, list0 |-> mount_list,
                id |-> entry.id, called |-> MigrateCalled(entry), migrate |-> mig,
                data |-> r.data, ret |-> r.ret]

(* the restore function of the next entry of the image *)
RestoreEntry ==
    /\ image.phase = "rs"
    /\ image.ret = 0
    /\ image.pos < Len(image.entries)
    /\ LET entry == image.entries[image.pos + 1] IN
       \/ /\ entry.kind = "fs"
          /\ last' = [op |-> "restore", kind |-> entry.kind, list0 |-> mount_list]
          /\ LET r == RS_FUNC_fs(image.registry, entry) IN
             image' = [image EXCEPT !.pos = @ + 1, !.ret = r.ret,
                                    !.fs = @ \cup r.fs]
          /\ UNCHANGED <<dentries, mount_list, mount_migrated>>
       \/ /\ entry.kind = "mount"
          /\ \E mig \in BackendRets :
                /\ mig = 0 \/ MigrateCalled(entry)
                /\ RestoreMount(entry, mig, RS_FUNC_mount(dentries, mount_list, entry, mig))
          /\ UNCHANGED mount_migrated
       \/ /\ entry.kind = "all_mounts"
          /\ last' = [op |-> "restore", kind |-> entry.kind, list0 |-> mount_list]
          /\ mount_migrated' = TRUE
          /\ image' = [image EXCEPT !.pos = @ + 1]
          /\ UNCHANGED <<dentries, mount_list>>
    /\ UNCHANGED <<ncalls, hdl, sf, log, threads, locks, process>>

---------------------------------------------------------------------------
(*                     COPY ENGINE: sendfile / handle_copy                 *)

ALLOC_ALIGNMENT == 16                  \* allocation granularity given by the PAL
MAP_SIZE == ALLOC_ALIGNMENT * 256      \* chunk of a mapped transfer
BUF_SIZE == 2048                       \* chunk of a buffered transfer
O_NONBLOCK == 2048                     \* 04000
COUNT_UNBOUNDED == -1                  \* (size_t)-1 seen as ssize_t

ALLOC_ALIGN_DOWN(x) == x - (x % ALLOC_ALIGNMENT)
ALLOC_ALIGN_UP(x)   == ALLOC_ALIGN_DOWN(x + ALLOC_ALIGNMENT - 1)

(* stream operations a backend may expose besides read and write *)
K_ALL     == {"seek", "mmap", "poll", "truncate", "flush", "setflags"}
K_FILE    == {"seek", "mmap", "poll", "truncate", "flush"}
K_NOTRUNC == {"seek", "mmap", "poll"}
K_NOPOLL  == {"seek", "mmap", "setflags"}
K_SEEK    == {"seek", "setflags"}
K_PIPE    == {"poll", "setflags"}
K_BARE    == {}

InKinds  == {K_ALL, K_FILE, K_NOPOLL, K_SEEK, K_PIPE, K_BARE}
OutKinds == {K_ALL, K_FILE, K_NOTRUNC, K_NOPOLL, K_SEEK, K_PIPE, K_BARE}

InitPos   == 1                                    \* cursor of both handles before the call
InSizes   == {1, 3, BUF_SIZE + 2, MAP_SIZE + 2}   \* bytes the input holds
OutSizes  == {1, 3 * MAP_SIZE}                    \* bytes the output holds
Offsets   == {<<>>, <<0>>, <<2>>}                 \* the offset argument: NULL or a value
Counts    == {COUNT_UNBOUNDED, 0, 2, BUF_SIZE + 1, MAP_SIZE + 1}

Handle(fsops, ops, flags, size) ==
    [fs_ops |-> fsops, ops |-> ops, flags |-> flags, pos |-> InitPos, size |-> size,
     nonblock |-> "O_NONBLOCK" \in flags, ref_count |-> 1]

(* ---- the backend stream operations, as a regular file or a stream ----  *)
Lg(c, s, op, a) == [c EXCEPT !.log = Append(@, <<s, op, a>>)]

(* seek(hdl, off, SEEK_SET) *)
SeekSet(c, s, off) == [Lg(c, s, "seek_set", off) EXCEPT !.h[s].pos = off]
(* seek(hdl, 0, SEEK_CUR): the value is c.h[s].pos *)
SeekCur(c, s) == Lg(c, s, "seek_cur", 0)
(* poll(hdl, FS_POLL_SZ): the value is c.h[s].size *)
Poll(c, s) == Lg(c, s, "poll", 0)
Truncate(c, s, n) == [Lg(c, s, "truncate", n) EXCEPT !.h[s].size = n]
SetFlags(c, s, fl) == [Lg(c, s, "setflags", fl) EXCEPT !.h[s].nonblock = (fl = O_NONBLOCK)]
Flush(c, s) == Lg(c, s, "flush", 0)
Mmap(c, s, size, off) == Lg(c, s, "mmap", off)
MmapFailed(c, s, size, off) == Lg(c, s, "mmap_failed", off)
Munmap(c, s) == Lg(c, s, "munmap", 0)

ReadCount(h, n, rd) ==
    IF rd = "err" THEN -EIO ELSE Min(n, Max(h.size - h.pos, 0))
Read(c, s, n, rd) ==
    LET k == ReadCount(c.h[s], n, rd) IN
    [Lg(c, s, "read", n) EXCEPT !.h[s].pos = IF k > 0 THEN @ + k ELSE @]

WriteCount(n, wr) ==
    IF wr = "err" THEN -EIO ELSE IF wr = "short" THEN n \div 2 ELSE n
Write(c, s, n, wr) ==
    LET k == WriteCount(n, wr) IN
    [Lg(c, s, "write", n) EXCEPT
        !.h[s].pos  = IF k > 0 THEN @ + k ELSE @,
        !.h[s].size = IF k > 0 THEN Max(@, c.h[s].pos + k) ELSE @]

get_handle(c, s) == [c EXCEPT !.h[s].ref_count = @ + 1]
put_handle(c, s) == [c EXCEPT !.h[s].ref_count = @ - 1]

Has(c, s, op) == c.h[s].fs_ops /\ op \in c.h[s].ops

(* ---- frame of one sendfile call ----                                    *)
IdleFrame == [pc |-> "idle"]          \* no sendfile call in progress

NewFrame(offp, count, ifd_ok, ofd_ok, c) ==
    [pc |-> "run", ifd_ok |-> ifd_ok, ofd_ok |-> ofd_ok, hasoff |-> offp # <<>>, off |-> IF offp = <<>> THEN 0 ELSE offp[1],
     count0 |-> count, count |-> count, old_offset |-> 0,
     offi |-> 0, offo |-> 0, do_mapi |-> FALSE, do_mapo |-> FALSE,
     do_marki |-> FALSE, do_marko |-> FALSE,
     bytes |-> 0, bufsize |-> MAP_SIZE, copysize |-> 0, bufi |-> FALSE,
     ret |-> 0, offset_out |-> IF offp = <<>> THEN 0 ELSE offp[1],
     \* what the call found on entry, and whether a backend call failed in it
     cur0 |-> c.h["i"].pos, opos0 |-> c.h["o"].pos, size0 |-> c.h["i"].size,
     copied |-> FALSE, fault |-> FALSE, iters |-> 0]

(* lines 636-639: the out: label of shim_do_sendfile *)
SendfileOut(c, ret) ==
    [put_handle(put_handle(c, "i"), "o") EXCEPT !.f.pc = "done", !.f.ret = ret]

(* lines 631-639: handle_copy has returned ret *)
SendfileReturn(c, ret) ==
    IF ret >= 0 /\ c.f.hasoff
    THEN SendfileOut(SeekSet(c, "i", c.f.old_offset), ret)
    ELSE SendfileOut(c, ret)

(* lines 282-300: the start offsets of both sides *)
CopyOffsets(c) ==
    LET ci == IF c.f.hasoff
              THEN [SeekSet(c, "i", c.f.off) EXCEPT !.f.offi = c.f.off]
              ELSE IF Has(c, "i", "seek")
                   THEN [SeekCur(c, "i") EXCEPT !.f.offi = c.h["i"].pos]
                   ELSE [c EXCEPT !.f.do_mapi = FALSE]
    IN IF Has(ci, "o", "seek")
       THEN [SeekCur(ci, "o") EXCEPT !.f.offo = ci.h["o"].pos]
       ELSE [ci EXCEPT !.f.do_mapo = FALSE]

(* lines 302-313: clamp the count to what a mappable input holds *)
CopyClampInput(c) ==
    IF ~c.f.do_mapi THEN c
    ELSE IF ~Has(c, "i", "poll") THEN [c EXCEPT !.f.do_mapi = FALSE]
    ELSE LET size == c.h["i"].size
             p    == Poll(c, "i")
         IN IF c.f.count = COUNT_UNBOUNDED \/ c.f.count > size - c.f.offi
            THEN [p EXCEPT !.f.count = size - c.f.offi]
            ELSE p

(* lines 315-330: make a mappable output large enough *)
CopyExtendOutput(c) ==
    IF ~(c.f.do_mapo /\ c.f.count > 0) THEN c
    ELSE IF ~Has(c, "o", "poll") THEN [c EXCEPT !.f.do_mapo = FALSE]
    ELSE LET p == Poll(c, "o") IN
         IF c.f.offo + c.f.count < c.h["o"].size THEN p
         ELSE IF ~Has(c, "o", "truncate") THEN [p EXCEPT !.f.do_mapo = FALSE]
         ELSE Truncate(p, "o", c.f.offo + c.f.count)

(* lines 338-352 (and 369-375, 388-394): switch a non-blocking handle that  *)
(* is not mapped to blocking mode                                           *)
MarkBlocking(c, s) ==
    IF "O_NONBLOCK" \in c.h[s].flags /\ Has(c, s, "setflags")
    THEN IF s = "i" THEN [SetFlags(c, s, 0) EXCEPT !.f.do_marki = TRUE]
                    ELSE [SetFlags(c, s, 0) EXCEPT !.f.do_marko = TRUE]
    ELSE c

CopyMarkBlocking(c) ==
    LET ci == IF ~c.f.do_mapi THEN MarkBlocking(c, "i") ELSE c
    IN IF ~ci.f.do_mapo THEN MarkBlocking(ci, "o") ELSE ci

(* lines 267-354: handle_copy up to the loop; pc "loop" when it is entered, *)
(* otherwise the call has returned                                          *)
CopyPrologue(c) ==
    IF c.f.count = 0 THEN SendfileReturn(c, 0)
    ELSE IF ~c.h["i"].fs_ops \/ ~c.h["o"].fs_ops THEN SendfileReturn(c, -EACCES)
    ELSE IF c.f.hasoff /\ ~Has(c, "i", "seek") THEN SendfileReturn(c, -EACCES)
    ELSE
    LET c0 == [c EXCEPT !.f.do_mapi = Has(c, "i", "mmap"),
                        !.f.do_mapo = Has(c, "o", "mmap")]
        c1 == CopyOffsets(c0)
        c2 == CopyClampInput(c1)
    IN IF c2.f.do_mapi /\ c2.f.count = 0 THEN SendfileReturn(c2, 0)
       ELSE [CopyMarkBlocking(CopyExtendOutput(c2)) EXCEPT !.f.pc = "loop"]

AppendRefused_Off(h) == FALSE

(* line 612: Linux errors out if the output has O_APPEND *)
AppendRefused(h) == "O_APPEND" \in h.flags

(* lines 600-631: shim_do_sendfile up to the call of handle_copy *)
SendfileEnter(c, ifd_ok, ofd_ok) ==
    IF ~ifd_ok THEN [c EXCEPT !.f.pc = "done", !.f.ret = -EBADF]
    ELSE IF ~ofd_ok
        THEN [put_handle(get_handle(c, "i"), "i") EXCEPT !.f.pc = "done", !.f.ret = -EBADF]
    ELSE
    LET c1 == get_handle(get_handle(c, "i"), "o") IN
    IF AppendRefused(c1.h["o"]) THEN SendfileOut(c1, -EINVAL)
    ELSE IF c1.f.hasoff /\ ~Has(c1, "i", "seek") THEN SendfileOut(c1, -EACCES)
    ELSE IF c1.f.hasoff
        THEN CopyPrologue([SeekCur(c1, "i") EXCEPT !.f.old_offset = c1.h["i"].pos])
    ELSE CopyPrologue(c1)

(* ---- the copy loop ----                                                 *)

(* what the backends do in one iteration: whether each mmap succeeds, how   *)
(* the read and the write end, and whether touching a mapping beyond the    *)
(* end of its object faults                                                 *)
Envs == [mi : BOOLEAN, mo : BOOLEAN, rd : {"ok", "err"},
         wr : {"ok", "short", "err"}, bus : BOOLEAN]

(* lines 359-360: the size of this iteration's chunk *)
ChunkSize(f) ==
    IF f.count > 0 /\ f.bufsize > f.count - f.bytes THEN f.count - f.bytes ELSE f.bufsize

(* lines 362-398: map a window of side s, or fall back to read/write *)
MapWindow(c, s, ok) ==
    LET off  == IF s = "i" THEN c.f.offi ELSE c.f.offo
        boff == off - ALLOC_ALIGN_DOWN(off)
        m    == MmapFailed(c, s, ALLOC_ALIGN_UP(c.f.bufsize + boff), off - boff)
    IN IF ok THEN Mmap(c, s, ALLOC_ALIGN_UP(c.f.bufsize + boff), off - boff)
       ELSE LET m1 == IF s = "i" THEN [m EXCEPT !.f.do_mapi = FALSE]
                                 ELSE [m EXCEPT !.f.do_mapo = FALSE]
                m2 == MarkBlocking(m1, s)
            IN IF Has(m2, s, "seek") THEN SeekSet(m2, s, off) ELSE m2

(* a mapped window reaches beyond the end of the object it maps *)
BeyondEnd(c) ==
    \/ c.f.do_mapi /\ c.f.offi + c.f.bufsize > c.h["i"].size
    \/ c.f.do_mapo /\ c.f.offo + c.f.bufsize > c.h["o"].size

FlushOut_Never(c) == c

(* lines 406-410, 416-420: flush a mapped output before its mapping goes *)
FlushOut(c) == IF Has(c, "o", "flush") THEN Flush(c, "o") ELSE c

(* line 454: while (bytes < count) *)
LoopAgain(f) == f.bytes < f.count

RollbackPos_None(f, off) == off

(* lines 461, 463: the position both handles are put back to *)
RollbackPos(f, off) == off - f.bytes

(* lines 456-467: the transfer failed or stalled *)
CopyFailed(c) ==
    LET f   == c.f
        ret == IF f.copysize < 0 THEN f.copysize ELSE -EAGAIN
        ci  == IF f.bytes # 0 /\ Has(c, "i", "seek")
               THEN SeekSet(c, "i", RollbackPos(f, f.offi)) ELSE c
        co  == IF f.bytes # 0 /\ Has(ci, "o", "seek")
               THEN SeekSet(ci, "o", RollbackPos(f, f.offo)) ELSE ci
    IN SendfileReturn(co, ret)

(* lines 469-495: the transfer is complete *)
CopySucceeded(c) ==
    LET f  == c.f
        c1 == IF f.do_marki /\ "O_NONBLOCK" \in c.h["i"].flags
              THEN SetFlags(c, "i", O_NONBLOCK) ELSE c
        c2 == IF f.do_marko /\ "O_NONBLOCK" \in c1.h["o"].flags
              THEN SetFlags(c1, "o", O_NONBLOCK) ELSE c1
        c3 == IF f.do_mapi /\ Has(c2, "i", "seek") THEN SeekSet(c2, "i", f.offi) ELSE c2
        c4 == IF f.hasoff THEN [c3 EXCEPT !.f.offset_out = f.offi] ELSE c3
        c5 == IF f.do_mapo /\ Has(c4, "o", "seek") THEN SeekSet(c4, "o", f.offo) ELSE c4
    IN SendfileReturn(c5, f.bytes)

(* lines 456-495: handle_copy after the loop *)
CopyEpilogue(c) ==
    IF c.f.copysize < 0 \/ (c.f.count > 0 /\ c.f.bytes < c.f.count)
    THEN CopyFailed(c) ELSE CopySucceeded(c)

(* lines 448-454: account for the chunk and decide whether to go on *)
CopyAdvance(c, expectsize) ==
    LET k  == c.f.copysize
        c1 == [c EXCEPT !.f.bytes = @ + k, !.f.offi = @ + k, !.f.offo = @ + k,
                        !.f.copied = @ \/ k > 0]
    IN IF k < expectsize THEN CopyEpilogue(c1)
       ELSE IF LoopAgain(c1.f) THEN c1
       ELSE CopyEpilogue(c1)

(* lines 400-446: move one chunk *)
CopyChunk(c, e, expectsize) ==
    LET f == c.f IN
    IF f.do_mapi /\ f.do_mapo THEN
        LET k == IF f.count - f.bytes > f.bufsize THEN f.bufsize ELSE f.count - f.bytes IN
        IF k < 0 THEN [c EXCEPT !.f.pc = "crashed"]   \* memcpy of a negative size
        ELSE CopyAdvance([Munmap(FlushOut(Munmap(Lg(c, "o", "memcpy", k), "i")), "o")
                            EXCEPT !.f.copysize = k], expectsize)
    ELSE IF f.do_mapo THEN
        LET k  == ReadCount(c.h["i"], f.bufsize, e.rd)
            c1 == [Munmap(FlushOut(Read(c, "i", f.bufsize, e.rd)), "o")
                     EXCEPT !.f.copysize = k, !.f.fault = @ \/ e.rd = "err"]
        IN IF k < 0 THEN CopyEpilogue(c1) ELSE CopyAdvance(c1, expectsize)
    ELSE IF f.do_mapi THEN
        LET k  == WriteCount(f.bufsize, e.wr)
            c1 == [Munmap(Write(c, "o", f.bufsize, e.wr), "i")
                     EXCEPT !.f.copysize = k, !.f.fault = @ \/ e.wr # "ok"]
        IN IF k < 0 THEN CopyEpilogue(c1) ELSE CopyAdvance(c1, expectsize)
    ELSE
        LET bs == IF f.bufi THEN f.bufsize ELSE Min(f.bufsize, BUF_SIZE)
            r  == ReadCount(c.h["i"], bs, e.rd)
            c1 == [Read(c, "i", bs, e.rd)
                     EXCEPT !.f.bufsize = bs, !.f.bufi = TRUE, !.f.copysize = r,
                            !.f.fault = @ \/ e.rd = "err"]
        IN IF r <= 0 THEN CopyEpilogue(c1)
           ELSE LET w  == WriteCount(r, e.wr)
                    c2 == [Write(c1, "o", r, e.wr)
                             EXCEPT !.f.copysize = w, !.f.fault = @ \/ e.wr # "ok"]
                IN IF w < 0 THEN CopyEpilogue(c2) ELSE CopyAdvance(c2, r)

(* lines 355-454: one iteration of the loop *)
CopyIter(c, e) ==
    LET bs == ChunkSize(c.f)
        c0 == [c EXCEPT !.f.bufsize = bs, !.f.iters = @ + 1]
        c1 == IF c0.f.do_mapi THEN MapWindow(c0, "i", e.mi) ELSE c0
        c2 == IF c1.f.do_mapo THEN MapWindow(c1, "o", e.mo) ELSE c1
    IN IF e.bus /\ BeyondEnd(c2) THEN [c2 EXCEPT !.f.pc = "crashed"]
       ELSE CopyChunk(c2, e, bs)

(* the choices of the backends that this iteration consults *)
EnvUsed(c, e) ==
    LET f    == c.f
        mapi == f.do_mapi /\ e.mi
        mapo == f.do_mapo /\ e.mo
    IN /\ f.do_mapi \/ e.mi
       /\ f.do_mapo \/ e.mo
       /\ ~mapi \/ e.rd = "ok"
       /\ ~mapo \/ e.wr = "ok"
       /\ (mapi \/ mapo) \/ ~e.bus

(* ---- actions ----                                                       *)
Ctx == [h |-> hdl, f |-> sf, log |-> log]

Sendfile ==
    /\ sf.pc = "idle"
    /\ \E ifd_ok \in BOOLEAN, ofd_ok \in BOOLEAN, offp \in Offsets, count \in Counts :
        LET c == SendfileEnter([h |-> hdl, f |-> NewFrame(offp, count, ifd_ok, ofd_ok, Ctx),
                                log |-> <<>>],
                               ifd_ok, ofd_ok)
        IN /\ (ifd_ok \/ ofd_ok)
           /\ hdl' = c.h /\ sf' = c.f /\ log' = c.log
    /\ UNCHANGED <<dentries, last, ncalls, threads, locks>>
    /\ UNCHANGED mountVars

CopyLoop ==
    /\ sf.pc = "loop"
    /\ \E e \in Envs :
        /\ EnvUsed(Ctx, e)
        /\ LET c == CopyIter(Ctx, e)
           IN hdl' = c.h /\ sf' = c.f /\ log' = c.log
    /\ UNCHANGED <<dentries, last, ncalls, threads, locks>>
    /\ UNCHANGED mountVars

InitCopy ==
    /\ dentries = [d \in DentryNames |-> InitDentry(d)]
    /\ last = NoCall
    /\ ncalls = 0
    /\ \E ki \in InKinds, ko \in OutKinds, fsi \in BOOLEAN, fso \in BOOLEAN,
          fli \in SUBSET {"O_NONBLOCK"}, flo \in SUBSET {"O_NONBLOCK", "O_APPEND"},
          szi \in InSizes, szo \in OutSizes :
        /\ fsi \/ ki = K_BARE
        /\ fso \/ ko = K_BARE
        /\ hdl = [s \in {"i", "o"} |->
                    IF s = "i" THEN Handle(fsi, ki, fli, szi) ELSE Handle(fso, ko, flo, szo)]
    /\ sf = IdleFrame
    /\ log = <<>>
    /\ ThreadsIdle
    /\ MountIdle

NextCopy == Sendfile \/ CopyLoop

SpecCopy == InitCopy /\ [][NextCopy]_vars


(* ---- claims about the copy engine (specification SpecCopy) ----         *)

Returned == sf.pc = "done"

(* the call was not refused for its arguments before any byte was tried *)
CopyRan == Returned /\ sf.ret \notin {-EBADF, -EINVAL, -EACCES}

(* where the transfer starts on each side, and what the input holds there *)
StartIn  == IF sf.hasoff THEN sf.off ELSE sf.cur0
StartOut == sf.opos0
Available == sf.size0 - StartIn

(* C5 (as claimed): a request of N > 0 bytes from an input with only        *)
(* M < N bytes available returns M and no error, whichever sides are        *)
(* mapped, when no read or write fails.                                     *)
C5_ShortInputReturnsAvailable ==
    (CopyRan /\ ~sf.fault /\ sf.count0 > 0 /\ Available >= 0 /\ Available < sf.count0)
        => sf.ret = Available

(* C6 (as claimed): after an error or a stall with K > 0 bytes moved, each  *)
(* handle that exposes seek is positioned at its start position plus K.     *)
C6_Case == Returned /\ sf.ret < 0 /\ sf.bytes > 0

LastSetFlags(s, fl) ==
    \E i \in DOMAIN log :
        /\ log[i] = <<s, "setflags", fl>>
        /\ \A j \in DOMAIN log : (j > i) => ~(log[j][1] = s /\ log[j][2] = "setflags")

(* C7 (as claimed): a handle opened O_NONBLOCK that the engine switched to  *)
(* blocking has had setflags(hdl, O_NONBLOCK) called again when the call    *)
(* returns, on success and on failure.                                      *)
C7_NonblockRestored ==
    Returned =>
        \A s \in {"i", "o"} :
            ("O_NONBLOCK" \in hdl[s].flags /\ \E i \in DOMAIN log : log[i] = <<s, "setflags", 0>>)
                => LastSetFlags(s, O_NONBLOCK)

(* C8 (as claimed): with an explicit offset the input handle's own cursor   *)
(* is the same after the call as before it, on success and on failure, and  *)
(* on success the caller's offset is the given offset plus the bytes moved. *)
C8_CursorUntouched ==
    (Returned /\ sf.hasoff /\ sf.ifd_ok /\ sf.ofd_ok) =>
        /\ hdl["i"].pos = sf.cur0
        /\ sf.ret >= 0 => sf.offset_out = sf.off + sf.ret

(* C9 (as claimed): an unbounded count copies until the input is exhausted: *)
(* with L bytes from the start position and no failing read or write the    *)
(* call returns L, for mapped and for buffered inputs.                      *)
C9_UnboundedCopiesAll ==
    (CopyRan /\ ~sf.fault /\ sf.count0 = COUNT_UNBOUNDED /\ Available >= 0)
        => sf.ret = Available

(* C10: sendfile to an output opened O_APPEND returns -EINVAL, calls no     *)
(* backend operation on either handle and releases both handle references.  *)
C10_AppendRefused ==
    (Returned /\ sf.ifd_ok /\ sf.ofd_ok /\ "O_APPEND" \in hdl["o"].flags) =>
        /\ sf.ret = -EINVAL
        /\ log = <<>>
        /\ hdl["i"].ref_count = 1 /\ hdl["o"].ref_count = 1
        /\ hdl["i"].pos = sf.cur0 /\ hdl["o"].pos = sf.opos0

C10_Witness ==
    /\ Returned /\ sf.ifd_ok /\ sf.ofd_ok /\ "O_APPEND" \in hdl["o"].flags
    /\ sf.count0 # 0 /\ sf.ret = -EINVAL

(* the loop has run at least once and is about to run again, or is over *)
AfterIteration == sf.pc \in {"loop", "done"} /\ sf.iters > 0

(* C37: the copy loop terminates (at the head of every iteration after the *)
(* first, each earlier iteration has moved at least one byte and the total *)
(* is still below the count), and when the requested count is positive     *)
(* the total is between 0 and the requested count after every iteration,   *)
(* so that a successful sendfile returns no more than that count.          *)
C37_LoopBoundedByCount ==
    /\ (sf.pc = "loop" /\ sf.iters > 0) =>
          /\ sf.iters <= sf.bytes
          /\ sf.bytes < sf.count
    /\ (AfterIteration /\ sf.count0 > 0) =>
          /\ 0 <= sf.bytes
          /\ sf.bytes <= sf.count0
    /\ (Returned /\ sf.count0 > 0 /\ sf.ret >= 0) => sf.ret <= sf.count0

(* the first conjunct alone: progress of the loop *)
C37_LoopProgress ==
    (sf.pc = "loop" /\ sf.iters > 0) => (sf.iters <= sf.bytes /\ sf.bytes < sf.count)

(* the input's poll was consulted: the input was mappable when the count   *)
(* was clamped (lines 302-303)                                             *)
PolledInput == \E i \in DOMAIN log : log[i][1] = "i" /\ log[i][2] = "poll"

(* a mappable input whose start position is at or beyond its size *)
StartAtOrBeyondEnd == sf.pc # "idle" /\ PolledInput /\ StartIn >= sf.size0

(* the byte counts handed to memcpy, read and write in the call so far *)
MovedSizes == {log[i][3] : i \in {j \in DOMAIN log : log[j][2] \in {"memcpy", "read", "write"}}}

(* C38: with a mappable input whose start position is at or beyond the     *)
(* size poll reports, sendfile moves no byte and returns 0: the clamped    *)
(* count is not negative, and every size handed to memcpy, read or write   *)
(* is between 0 and the chunk size.                                        *)
C38_NothingMovedPastEnd ==
    /\ StartAtOrBeyondEnd =>
          /\ sf.count >= 0
          /\ Returned /\ sf.ret = 0
          /\ sf.bytes = 0
          /\ MovedSizes = {}
    /\ sf.pc # "idle" => \A n \in MovedSizes : 0 <= n /\ n <= MAP_SIZE

(* ---- mappings and flush, read off the trace of backend operations ---- *)

(* what the next operation of the trace does to the two mappings.  m.i is  *)
(* TRUE while the input is mapped; m.o is "none", or "mapped" (no data in  *)
(* it yet), "written", "flushed"; m.ok turns FALSE at the first operation  *)
(* that is out of order                                                    *)
MapStep(m, e, flush) ==
    CASE e[2] = "mmap" /\ e[1] = "i" -> [m EXCEPT !.ok = @ /\ ~m.i, !.i = TRUE]
      [] e[2] = "mmap" /\ e[1] = "o" -> [m EXCEPT !.ok = @ /\ m.o = "none", !.o = "mapped"]
      [] e[2] = "munmap" /\ e[1] = "i" -> [m EXCEPT !.ok = @ /\ m.i, !.i = FALSE]
      [] e[2] = "munmap" /\ e[1] = "o" ->
            [m EXCEPT !.ok = @ /\ m.o = (IF flush THEN "flushed" ELSE "written"),
                      !.o = "none"]
      [] e[2] = "memcpy" -> [m EXCEPT !.ok = @ /\ m.i /\ m.o = "mapped", !.o = "written"]
      [] e[2] = "read" /\ m.o # "none" -> [m EXCEPT !.ok = @ /\ m.o = "mapped", !.o = "written"]
      [] e[2] = "flush" -> [m EXCEPT !.ok = @ /\ m.o = "written", !.o = "flushed"]
      [] OTHER -> m

RECURSIVE MapScan(_, _, _, _)
MapScan(lg, i, m, flush) ==
    IF i > Len(lg) THEN m ELSE MapScan(lg, i + 1, MapStep(m, lg[i], flush), flush)

Mappings == MapScan(log, 1, [i |-> FALSE, o |-> "none", ok |-> TRUE], Has(Ctx, "o", "flush"))

(* C39: in an iteration with a mapped output whose backend has flush,      *)
(* flush is called after the data went into the mapping and before the     *)
(* mapping is released; and whenever an iteration is over (the loop goes   *)
(* on, or handle_copy has returned) no mapping is left.                    *)
C39_FlushThenRelease ==
    sf.pc \in {"loop", "done"} =>
        /\ Mappings.ok
        /\ ~Mappings.i
        /\ Mappings.o = "none"

(* a transfer of more than one iteration, both sides mapped, to an output  *)
(* with flush, has returned                                                *)
C39_Witness ==
    /\ Returned /\ sf.iters >= 2 /\ sf.ret > MAP_SIZE
    /\ Has(Ctx, "o", "flush")
    /\ \E i \in DOMAIN log : log[i][2] = "memcpy"
    /\ \E i \in DOMAIN log : log[i] = <<"o", "flush", 0>>
    /\ Mappings.o = "none"

(* the same for a start position exactly at the size *)
C38_NothingMovedAtEnd ==
    (sf.pc # "idle" /\ PolledInput /\ StartIn = sf.size0) =>
        /\ sf.count = 0
        /\ Returned /\ sf.ret = 0
        /\ sf.bytes = 0
        /\ MovedSizes = {}

---------------------------------------------------------------------------
(*                       specification: dentry syscalls                    *)

Init ==
    /\ dentries = [d \in DentryNames |-> InitDentry(d)]
    /\ last = NoCall
    /\ ncalls = 0
    /\ hdl = [s \in {"i", "o"} |-> Handle(TRUE, K_FILE, {}, 1)]
    /\ sf = IdleFrame
    /\ log = <<>>
    /\ ThreadsIdle
    /\ MountIdle

Next == Unlinkat \/ Rmdir \/ Renameat

Spec == Init /\ [][Next]_vars

---------------------------------------------------------------------------
(*                                 claims                                  *)

(* C1: once unlinkat(P) has returned 0 the dentry of P is DENTRY_NEGATIVE   *)
(* (it was an existing dentry with a parent before the call); a second      *)
(* well-formed unlinkat(P) issued right after it returns -ENOENT and        *)
(* changes no dentry flag.                                                  *)
C1_UnlinkThenNotFound ==
    /\ (last.op = "unlinkat" /\ last.ret = 0) =>
          /\ "DENTRY_NEGATIVE" \in dentries[last.old].state
          /\ "DENTRY_NEGATIVE" \notin last.pre
          /\ dentries[last.old].parent # NoDent
    /\ (last.op = "unlinkat" /\ last.again /\ last.flag # "AT_OTHER") =>
          /\ last.ret = -ENOENT
          /\ last.changed = {}
          /\ "DENTRY_NEGATIVE" \in dentries[last.old].state

C1_Witness ==
    /\ last.op = "unlinkat" /\ last.again /\ last.flag # "AT_OTHER"
    /\ last.ret = -ENOENT

(* the rename call reached do_rename with both paths resolved *)
RenameReached == last.op = "renameat" /\ last.reached

(* C2 (as claimed): a rename whose two dentries belong to different mount   *)
(* records returns -EXDEV, whatever their types and filesystem types.       *)
C2_CrossMountIsEXDEV ==
    (RenameReached /\ dentries[last.old].mount # dentries[last.new].mount)
        => last.ret = -EXDEV

(* the case of C3: a directory source, an existing non-empty directory      *)
(* destination, both on the same mount                                      *)
C3_Case ==
    /\ RenameReached
    /\ "DENTRY_ISDIRECTORY" \in last.pre
    /\ "DENTRY_ISDIRECTORY" \in last.pre2
    /\ "DENTRY_NEGATIVE" \notin last.pre2
    /\ dentries[last.new].nchildren > 0
    /\ dentries[last.old].mount = dentries[last.new].mount

(* the error the ordered checks of do_rename give before the cycle check *)
RenameTypeRefused ==
    \/ dentries[last.old].type # "S_IFREG"
    \/ ("DENTRY_NEGATIVE" \notin last.pre2 /\ dentries[last.new].type # "S_IFREG")

(* C3 (as claimed): directory onto non-empty directory returns -ENOTEMPTY   *)
(* without calling the backend rename.                                      *)
C3_DirOntoNonEmptyIsENOTEMPTY ==
    C3_Case => (last.ret = -ENOTEMPTY /\ "rename" \notin last.called)

(* C3 (amended): directory onto non-empty directory on the same mount       *)
(* always fails without calling the backend rename; the error is -ENOSYS    *)
(* whenever the type of either dentry is not S_IFREG, otherwise -EPERM when *)
(* the filesystem has no rename operation, otherwise -ENOTEMPTY.            *)
C3_DirOntoNonEmptyFails ==
    C3_Case =>
        /\ "rename" \notin last.called
        /\ last.ret = IF RenameTypeRefused THEN -ENOSYS
                      ELSE IF "rename" \notin DOps(dentries[last.old].fs) THEN -EPERM
                      ELSE -ENOTEMPTY

C3_Witness == C3_Case /\ last.ret = -ENOSYS /\ last.old # last.new

(* the case of C4: one endpoint is a strict ancestor of the other *)
C4_Case ==
    /\ RenameReached
    /\ \/ StrictAncestor(dentries, last.new, last.old)
       \/ StrictAncestor(dentries, last.old, last.new)

(* C4 (as claimed): a rename between a dentry and its ancestor returns      *)
(* -EINVAL without calling the backend rename.                              *)
C4_AncestorIsEINVAL ==
    C4_Case => (last.ret = -EINVAL /\ "rename" \notin last.called)

(* C4 (amended): a rename between a dentry and its ancestor always fails    *)
(* without calling the backend rename; the error is that of the first       *)
(* failing check of do_rename, -ENOSYS whenever the type of either dentry   *)
(* is not S_IFREG, and -EINVAL only when every earlier check passes.        *)
C4_AncestorFails ==
    C4_Case =>
        /\ "rename" \notin last.called
        /\ last.ret \in {-ENOSYS, -EXDEV, -EPERM, -ENOTDIR, -ENOTEMPTY, -EISDIR, -EINVAL}
        /\ RenameTypeRefused => last.ret = -ENOSYS

C4_Witness ==
    /\ C4_Case /\ last.ret = -ENOSYS
    /\ StrictAncestor(dentries, last.new, last.old)

(* the last call was an unlinkat or rmdir of an existing dentry that has a  *)
(* parent, is of the kind the call removes, and whose path resolves         *)
RemoveDir == last.op = "rmdir" \/ last.flag = "AT_REMOVEDIR"

UnlinkCase ==
    /\ last.op \in {"unlinkat", "rmdir"}
    /\ last.flag # "AT_OTHER"
    /\ last.old # NoDent
    /\ "DENTRY_NEGATIVE" \notin last.pre
    /\ dentries[last.old].parent # NoDent
    /\ RemoveDir <=> ("DENTRY_ISDIRECTORY" \in last.pre)
    /\ ~WalkBlocked(dentries, NoDent, last.old)

(* C11: unlinkat or rmdir of an existing dentry with a parent, of the       *)
(* matching kind, on a filesystem without an unlink operation returns 0,    *)
(* calls no backend, sets DENTRY_PERSIST and DENTRY_NEGATIVE and, for rmdir *)
(* and AT_REMOVEDIR, clears DENTRY_ISDIRECTORY.                             *)
C11_PersistFallback ==
    (UnlinkCase /\ "unlink" \notin DOps(dentries[last.old].fs)) =>
        /\ last.ret = 0
        /\ last.called = {}
        /\ {"DENTRY_PERSIST", "DENTRY_NEGATIVE"} \subseteq dentries[last.old].state
        /\ RemoveDir => "DENTRY_ISDIRECTORY" \notin dentries[last.old].state

C11_Witness ==
    /\ UnlinkCase /\ "unlink" \notin DOps(dentries[last.old].fs)
    /\ last.op = "rmdir"
    /\ "DENTRY_PERSIST" \notin last.pre


(* the backend rename returned 0 *)
BackendRenamed == RenameReached /\ "rename" \in last.called /\ last.ret = 0

RenamedFlags ==
    BackendRenamed =>
        /\ "DENTRY_NEGATIVE" \in dentries[last.old].state
        /\ "DENTRY_NEGATIVE" \notin dentries[last.new].state

(* the two dentries are of one filesystem, which has no rename operation *)
NoRenameOp ==
    /\ RenameReached
    /\ dentries[last.old].fs = dentries[last.new].fs
    /\ "rename" \notin DOps(dentries[last.old].fs)

(* C28 as stated: when the backend rename returns 0 the source dentry has  *)
(* DENTRY_NEGATIVE set and the destination has it cleared; when the        *)
(* filesystem of the source has no rename operation, renameat on two       *)
(* dentries of that filesystem returns -EPERM.                             *)
C28_RenamedOrEPERM ==
    /\ RenamedFlags
    /\ NoRenameOp => last.ret = -EPERM

(* C28 amended: the flags are as stated; without a rename operation the    *)
(* call fails without calling a backend, with -ENOSYS when the source is   *)
(* not a regular file or the destination exists and is not a regular file, *)
(* and with -EPERM otherwise.                                              *)
C28_RenamedOrRefused ==
    /\ RenamedFlags
    /\ NoRenameOp =>
          /\ last.called = {}
          /\ last.ret = IF RenameTypeRefused THEN -ENOSYS ELSE -EPERM

(* a regular file was renamed onto a negative dentry, and then a rename of *)
(* a regular file of the filesystem without rename was refused             *)
C28_Witness ==
    /\ NoRenameOp
    /\ last.ret = -EPERM
    /\ \E d \in DentryNames :
          /\ "DENTRY_NEGATIVE" \in dentries[d].state
          /\ "DENTRY_NEGATIVE" \notin InitState(d)
    /\ "DENTRY_NEGATIVE" \notin dentries["/n"].state


RenameFailed == last.op = "renameat" /\ last.ret < 0

UnlinkatResolved ==
    /\ last.op = "unlinkat"
    /\ last.flag # "AT_OTHER"
    /\ last.old # NoDent
    /\ "DENTRY_NEGATIVE" \notin last.pre
    /\ ~WalkBlocked(dentries, PathDir(last.path), last.old)

(* AT_REMOVEDIR on a dentry that is not a directory *)
RemoveDirOnFile ==
    UnlinkatResolved /\ last.flag = "AT_REMOVEDIR" /\ "DENTRY_ISDIRECTORY" \notin last.pre

(* no AT_REMOVEDIR on a directory *)
UnlinkOnDir ==
    UnlinkatResolved /\ last.flag = "0" /\ "DENTRY_ISDIRECTORY" \in last.pre

(* a flag bit other than AT_REMOVEDIR *)
OtherFlag == last.op = "unlinkat" /\ last.flag = "AT_OTHER"

(* no backend unlink was called and no dentry flag changed *)
NothingUnlinked == "unlink" \notin last.called /\ last.changed = {}

(* C30 as stated: unlinkat with AT_REMOVEDIR on a non-directory returns    *)
(* -ENOTDIR, without AT_REMOVEDIR on a directory -EISDIR, and with any     *)
(* other flag bit -EINVAL; in all three cases the backend unlink is not    *)
(* called and the dentry's flags are unchanged.                            *)
C30_ModeErrors ==
    /\ RemoveDirOnFile => (last.ret = -ENOTDIR /\ NothingUnlinked)
    /\ UnlinkOnDir => (last.ret = -EISDIR /\ NothingUnlinked)
    /\ OtherFlag => (last.ret = -EINVAL /\ NothingUnlinked)

(* C30 amended: as stated, except that the root dentry, which has no       *)
(* parent, gives -EACCES where a directory gives -EISDIR, and an           *)
(* unreadable pathname gives -EFAULT whatever the flags.                   *)
C30_ModeErrorsInOrder ==
    /\ RemoveDirOnFile => (last.ret = -ENOTDIR /\ NothingUnlinked)
    /\ UnlinkOnDir =>
          /\ last.ret = IF dentries[last.old].parent = NoDent THEN -EACCES ELSE -EISDIR
          /\ NothingUnlinked
    /\ OtherFlag =>
          /\ last.ret = IF is_user_string_readable(last.path) THEN -EINVAL ELSE -EFAULT
          /\ NothingUnlinked

(* unlinkat without AT_REMOVEDIR on the root directory *)
C30_Witness ==
    /\ UnlinkOnDir
    /\ dentries[last.old].parent = NoDent
    /\ last.ret = -EACCES


(* unlinkat, with no flag bit but AT_REMOVEDIR, or rmdir of a path that    *)
(* names a dentry without a parent                                         *)
ParentlessCase ==
    /\ last.op \in {"unlinkat", "rmdir"}
    /\ last.flag # "AT_OTHER"
    /\ last.old # NoDent
    /\ dentries[last.old].parent = NoDent

(* C31: unlinkat and rmdir on a dentry that has no parent return -EACCES   *)
(* in either mode, call no backend and change no flag.                     *)
C31_ParentlessIsEACCES ==
    ParentlessCase =>
        /\ last.ret = -EACCES
        /\ last.called = {}
        /\ last.changed = {}
        /\ dentries[last.old].state = last.pre

(* unlinkat with AT_REMOVEDIR of the root, as the second call made *)
C31_Witness ==
    /\ ParentlessCase
    /\ last.op = "unlinkat"
    /\ last.flag = "AT_REMOVEDIR"
    /\ last.ret = -EACCES
    /\ ncalls = 2

---------------------------------------------------------------------------
(*                       specification: chmod calls                        *)

InitChmod ==
    /\ dentries = [d \in DentryNames |-> InitDentry(d)]
    /\ last = NoCall
    /\ ncalls = 0
    /\ hdl = [fd \in Fds |-> FileHandle(fd)]
    /\ sf = IdleFrame
    /\ log = <<>>
    /\ ThreadsIdle
    /\ MountIdle

NextChmod == Chmod \/ Fchmodat \/ Fchmod

SpecChmod == InitChmod /\ [][NextChmod]_vars

(* the last call was a chmod, fchmodat or fchmod that got hold of a dentry *)
ChmodCase == last.op \in {"chmod", "fchmodat", "fchmod"} /\ last.old # NoDent

NoChmodOp == "chmod" \notin DOps(dentries[last.old].fs)

(* C12 (as claimed): on a filesystem without a chmod operation the call     *)
(* returns 0, sets DENTRY_PERSIST and leaves perm equal to the requested    *)
(* mode.                                                                    *)
C12_PermIsRequestedMode ==
    (ChmodCase /\ NoChmodOp) =>
        /\ last.ret = 0
        /\ "DENTRY_PERSIST" \in dentries[last.old].state
        /\ dentries[last.old].perm = last.mode

(* C12 (amended): on a filesystem without a chmod operation the call        *)
(* returns 0, calls no backend, sets DENTRY_PERSIST and leaves perm equal   *)
(* to the requested mode masked to its low 12 bits, which is the requested  *)
(* mode itself when that has no higher bit set.                             *)
C12_PermIsMaskedMode ==
    (ChmodCase /\ NoChmodOp) =>
        /\ last.ret = 0
        /\ last.handed = <<>>
        /\ "DENTRY_PERSIST" \in dentries[last.old].state
        /\ dentries[last.old].perm = last.mode % 4096
        /\ last.mode < 4096 => dentries[last.old].perm = last.mode

C12_Witness ==
    /\ ChmodCase /\ NoChmodOp
    /\ last.op = "fchmod"
    /\ "DENTRY_PERSIST" \notin last.pre
    /\ last.mode < 4096 /\ last.mode # last.perm0

(* C13: for every mode the value handed to the backend chmod, and the value *)
(* stored in perm when the call succeeds, is mode mod 4096; a failed call   *)
(* leaves perm as it was.                                                   *)
C13_ModeMasked ==
    ChmodCase =>
        /\ \A i \in DOMAIN last.handed : last.handed[i] = last.mode % 4096
        /\ Len(last.handed) = IF NoChmodOp THEN 0 ELSE 1
        /\ last.ret = 0 => dentries[last.old].perm = last.mode % 4096
        /\ last.ret < 0 => dentries[last.old].perm = last.perm0

C13_Witness ==
    /\ ChmodCase /\ last.ret = 0
    /\ last.mode >= 4096
    /\ last.handed = <<last.mode % 4096>>
    /\ last.perm0 # last.mode % 4096

---------------------------------------------------------------------------
(*                     specification: mount calls                          *)

InitMountCalls ==
    /\ dentries = [d \in MDents |-> MDentry(d)]
    /\ last = NoCall
    /\ ncalls = 0
    /\ hdl = [h \in {} |-> 0]
    /\ sf = IdleFrame
    /\ log = <<>>
    /\ ThreadsIdle
    /\ MountIdle

NextMountCalls == MountFsCall \/ FindMountFromUri

SpecMountCalls == InitMountCalls /\ [][NextMountCalls]_vars

(* the mounts of the table that match a query: non-empty uri, prefix of it *)
Matches(list, uri) ==
    {i \in 1..Len(list) : list[i].uri # <<>> /\ IsPrefix(list[i].uri, uri)}

MountById(list, id) == CHOOSE i \in 1..Len(list) : list[i].id = id

FindCase == last.op = "find_mount_from_uri"

(* C14: find_mount_from_uri(u) returns no mount when no mount of the table *)
(* has a non-empty uri that is a prefix of u; otherwise it returns a mount *)
(* of the table with a non-empty uri that is a prefix of u, and no         *)
(* matching mount has a longer path.                                       *)
C14_LongestMatchingPath ==
    FindCase =>
        LET M == Matches(mount_list, last.uri) IN
        IF M = {} THEN last.found = NoMount
        ELSE /\ \E i \in M : mount_list[i].id = last.found
             /\ \A i \in M : strlen(mount_list[i].path)
                               <= strlen(mount_list[MountById(mount_list, last.found)].path)

(* a query matched by two mounts of different path lengths, the shorter    *)
(* path later in the table, beside a mount with an empty uri               *)
C14_Witness ==
    /\ FindCase
    /\ \E i, j \in Matches(mount_list, last.uri) :
           /\ i < j
           /\ strlen(mount_list[i].path) > strlen(mount_list[j].path)
           /\ mount_list[i].id = last.found


MountCase == last.op = "mount_fs"

(* the mount point's dentry was valid before the call, and is not the root *)
ValidBefore ==
    /\ MountCase
    /\ last.path \notin {"", "/"}
    /\ "DENTRY_VALID" \in last.ds0[last.path].state

(* the call added no mount and left the mount point's dentry as it was *)
NothingAttached ==
    /\ mount_list = last.list0
    /\ dentries[last.path].state = last.ds0[last.path].state
    /\ dentries[last.path].mount = last.ds0[last.path].mount
    /\ dentries[last.path].mounted = last.ds0[last.path].mounted
    /\ dentries[last.path].fs = last.ds0[last.path].fs

(* C16 as stated: mount_fs on a mount point whose dentry is already valid  *)
(* and is not the root returns -EEXIST, adds no mount and leaves that      *)
(* dentry's flags, mount, mounted and fs unchanged; mount_fs on "/" never  *)
(* returns -EEXIST.                                                        *)
C16_ValidIsEEXIST ==
    /\ ValidBefore => (last.ret = -EEXIST /\ NothingAttached)
    /\ (MountCase /\ last.path = "/") => last.ret # -EEXIST

(* C16 amended: on such a mount point mount_fs attaches nothing and fails: *)
(* with -ENODEV when the type is unknown or has no mount operation, with   *)
(* the backend's error when its mount operation fails, and with -EEXIST    *)
(* otherwise; mount_fs on "/" never returns -EEXIST.                       *)
C16_ValidIsRejected ==
    /\ ValidBefore =>
        /\ NothingAttached
        /\ last.ret < 0
        /\ last.at \in {"find_fs", "mount", "valid"}
        /\ last.at = "find_fs" <=>
              (find_fs(last.type) = NoFs \/ "mount" \notin FsOps(last.type))
        /\ last.at = "find_fs" => last.ret = -ENODEV
        /\ last.at = "valid" <=> last.ret = -EEXIST
    /\ (MountCase /\ last.path = "/") => last.ret # -EEXIST

(* a second mount on a valid mount point below the root is refused with    *)
(* -EEXIST                                                                 *)
C16_Witness ==
    /\ ValidBefore
    /\ last.ds0[last.path].mounted # NoMount
    /\ last.ret = -EEXIST


(* the call left from the backend's failing mount operation *)
BackendFailed == MountCase /\ last.at = "mount"

(* C17: when the backend's mount operation fails inside mount_fs, the call *)
(* returns the backend's error, the mount table is unchanged, no dentry    *)
(* has a flag or its mount, mounted or fs field changed, and every dentry  *)
(* reference taken during the call has been released.                      *)
C17_BackendFailureChangesNothing ==
    BackendFailed =>
        /\ last.ret = -EACCES
        /\ mount_list = last.list0
        /\ \A d \in MDents :
              /\ dentries[d].state = last.ds0[d].state
              /\ dentries[d].mount = last.ds0[d].mount
              /\ dentries[d].mounted = last.ds0[d].mounted
              /\ dentries[d].fs = last.ds0[d].fs
              /\ dentries[d].ref_count = last.ds0[d].ref_count


(* a successful mount_fs without dentp, on a mount point whose dentry the  *)
(* cache already held                                                      *)
MountedOnCached ==
    /\ MountCase
    /\ last.ret = 0
    /\ ~last.dentp
    /\ last.ds0[last.path].cached

(* C27: a successful mount_fs called without dentp leaves the ref_count of *)
(* the mount point's dentry exactly one higher than before the call, and   *)
(* the ref_count of every ancestor of the mount point as it was.           *)
C27_MountHoldsOneReference ==
    MountedOnCached =>
        /\ dentries[last.path].ref_count = last.ds0[last.path].ref_count + 1
        /\ \A d \in MDents :
              (IsBelow(last.path, d) /\ last.ds0[d].cached) =>
                  dentries[d].ref_count = last.ds0[d].ref_count


(* every mount_fs call made so far has succeeded *)
AllMounted == MountCase /\ Len(mount_list) = ncalls

(* d and every dentry above it, up to the root *)
RECURSIVE UpToRoot(_)
UpToRoot(d) == IF d = NoDent THEN {} ELSE {d} \cup UpToRoot(MParent(d))

Synthetic(d) == "DENTRY_SYNTHETIC" \in dentries[d].state

(* the dentries of the cache a mount is attached at *)
MountPoints == {d \in MDents : dentries[d].mounted # NoMount}

SyntheticUpward ==
    /\ \A d \in MountPoints : \A a \in UpToRoot(d) : Synthetic(a)
    /\ \A d \in MDents : (Synthetic(d) /\ MParent(d) # NoDent) => Synthetic(MParent(d))

MountStep == last'.op = "mount_fs" /\ ncalls' # ncalls

(* C34: the mount table only grows: a successful mount_fs appends exactly  *)
(* one mount, its own, at the tail; a failed mount_fs and every other      *)
(* operation leave the table as it is, so that the table lists the mounts  *)
(* in the order in which they succeeded.                                   *)
C34_MountTableOnlyGrows ==
    [][/\ IsPrefix(mount_list, mount_list')
       /\ (MountStep /\ last'.ret = 0) =>
             /\ Len(mount_list') = Len(mount_list) + 1
             /\ mount_list'[Len(mount_list')].id = ncalls'
             /\ mount_list'[Len(mount_list')].path = last'.path
             /\ \A i \in 1..Len(mount_list) : mount_list[i].id < ncalls'
       /\ ~(MountStep /\ last'.ret = 0) => mount_list' = mount_list]_vars

(* two mounts in the table, the one at the root made after the other *)
C34_Witness ==
    /\ Len(mount_list) = 2
    /\ mount_list[1].id < mount_list[2].id
    /\ mount_list[1].path = "/a"
    /\ mount_list[2].path = "/"
    /\ MountCase

(* mount_fs returned an error after it had the mount point's dentry: at    *)
(* the duplicate test (503), the validation lookup (513) or __mount_fs     *)
MountFailedAtDentry ==
    /\ last.op = "mount_fs"
    /\ last.ret < 0
    /\ last.at \in {"valid", "lookup", "del_tree"}

(* the MOUNTPOINT flag, mount, mounted and fs of dentry d in cache ds *)
MountFields(ds, d) ==
    <<"DENTRY_MOUNTPOINT" \in ds[d].state, ds[d].mount, ds[d].mounted, ds[d].fs>>

(* the cached dentries that point to mount record id *)
RefersToMount(id) ==
    {d \in MDents : dentries[d].cached /\ (dentries[d].mount = id \/ dentries[d].mounted = id)}

(* C40: when mount_fs fails after the mount point's dentry was found or    *)
(* created, a dentry that was in the cache keeps its MOUNTPOINT flag,      *)
(* mount, mounted and fs, and no dentry points to the mount record of the  *)
(* call, which is not in the mount list.                                   *)
C40_FailedMountLeavesDentry ==
    MountFailedAtDentry =>
        /\ last.ds0[last.path].cached =>
              MountFields(dentries, last.path) = MountFields(last.ds0, last.path)
        /\ RefersToMount(ncalls) = {}
        /\ \A i \in 1..Len(mount_list) : mount_list[i].id # ncalls

(* the same for the duplicate mount (-EEXIST) only *)
C40_DuplicateLeavesDentry ==
    (MountFailedAtDentry /\ last.at = "valid") =>
        /\ MountFields(dentries, last.path) = MountFields(last.ds0, last.path)
        /\ RefersToMount(ncalls) = {}

---------------------------------------------------------------------------
(*                     specification: boot mounts                          *)

InitBoot ==
    /\ dentries = [d \in MDents |-> MDentry(d)]
    /\ last = NoCall
    /\ ncalls = 0
    /\ hdl = [h \in {} |-> 0]
    /\ sf = IdleFrame
    /\ log = <<>>
    /\ ThreadsIdle
    /\ mount_list = <<>>
    /\ mount_migrated = FALSE
    /\ image = NoImage
    /\ \E m \in Manifests : process = [cwd |-> "/", root |-> "/", manifest |-> m]

NextBoot == InitMountRootCall \/ InitMountCall

SpecBoot == InitBoot /\ [][NextBoot]_vars

(* init_mount ran __mount_others over the manifest's mounts *)
OthersCase == last.op = "init_mount" /\ ~last.migrated0

(* position of declared mount j among the applications, 0 when not applied *)
AppliedAt(j) ==
    IF \E n \in 1..Len(last.applied) : last.applied[n].j = j
    THEN CHOOSE n \in 1..Len(last.applied) : last.applied[n].j = j
    ELSE 0

(* declared mount a comes before declared mount b: shorter path, or equal  *)
(* length and earlier in the configuration                                 *)
Before(cfg, a, b) ==
    \/ strlen(cfg[a].path) < strlen(cfg[b].path)
    \/ strlen(cfg[a].path) = strlen(cfg[b].path) /\ a < b

AppliedInOrder ==
    \A m, n \in 1..Len(last.applied) :
        m < n => Before(process.manifest.mount, last.applied[m].j, last.applied[n].j)

(* a mount of the table is attached at path *)
Attached(path) ==
    \E i \in 1..Len(mount_list) :
        /\ mount_list[i].path = path
        /\ mount_list[i].mount_point = path
        /\ dentries[path].mounted = mount_list[i].id
        /\ dentries[path].mount = mount_list[i].id
        /\ "DENTRY_MOUNTPOINT" \in dentries[path].state

(* declared mount b is mounted strictly below declared mount a *)
Descends(cfg, b, a) ==
    /\ cfg[a].path # NoKey /\ cfg[b].path # NoKey
    /\ IsBelow(cfg[b].path, cfg[a].path)

(* C15 as stated: whatever the order of the configuration, __mount_others  *)
(* applies every declared mount exactly once, by non-decreasing path       *)
(* length and in configuration order among equal lengths; a declared mount *)
(* below another declared mount is applied after it and both are attached. *)
C15_AllAppliedInOrder ==
    OthersCase =>
        /\ \A j \in 1..Len(process.manifest.mount) :
              Cardinality({n \in 1..Len(last.applied) : last.applied[n].j = j}) = 1
        /\ AppliedInOrder
        /\ \A a, b \in 1..Len(process.manifest.mount) :
              Descends(process.manifest.mount, b, a) =>
                  /\ AppliedAt(a) < AppliedAt(b)
                  /\ Attached(process.manifest.mount[a].path)
                  /\ Attached(process.manifest.mount[b].path)

(* C15 amended: __mount_others applies declared mounts by non-decreasing   *)
(* path length, in configuration order among equal lengths, each at most   *)
(* once, and stops at the first application that fails, or before the      *)
(* first one when a declared mount has no path: every mount it has not     *)
(* applied comes after the applied ones in that order.  When all           *)
(* applications succeed, every declared mount is applied exactly once, a   *)
(* declared mount below another one after it, and all of them are attached.*)
C15_AppliedInOrderUntilFailure ==
    OthersCase =>
        LET applied == last.applied
            cfg     == process.manifest.mount
            done    == /\ Len(applied) = Len(cfg)
                       /\ \A n \in 1..Len(applied) : applied[n].ret = 0
        IN
        /\ \A j \in 1..Len(cfg) :
              Cardinality({n \in 1..Len(applied) : applied[n].j = j}) <= 1
        /\ \A n \in 1..Len(applied) : applied[n].j \in 1..Len(cfg)
        /\ AppliedInOrder
        /\ \A a, b \in 1..Len(cfg) :
              (AppliedAt(a) # 0 /\ AppliedAt(b) = 0) => Before(cfg, a, b)
        /\ \A n \in 1..Len(applied) : applied[n].ret < 0 => n = Len(applied)
        /\ ~done =>
              \/ applied # <<>> /\ applied[Len(applied)].ret < 0 /\ last.ret < 0
              \/ applied = <<>> /\ last.ret = -ENOENT
                    /\ \E j \in 1..Len(cfg) : cfg[j].path = NoKey
        /\ done =>
              /\ \A j \in 1..Len(cfg) : Attached(cfg[j].path)
              /\ \A a, b \in 1..Len(cfg) :
                    Descends(cfg, b, a) => AppliedAt(a) < AppliedAt(b)

(* the configuration exposes /a/b before /a and a mount of the same length *)
(* as /a/b; all three are applied and attached                             *)
C15_Witness ==
    /\ OthersCase
    /\ Len(process.manifest.mount) = 3
    /\ \E a, b \in 1..Len(process.manifest.mount) :
           b < a /\ Descends(process.manifest.mount, b, a) /\ AppliedAt(a) < AppliedAt(b)
    /\ \A j \in 1..Len(process.manifest.mount) : AppliedAt(j) # 0 /\ Attached(process.manifest.mount[j].path)

---------------------------------------------------------------------------
(*                 specification: checkpoint and restore                   *)

(* a process that has booted without a failure starts a checkpoint *)
(* init_mount of a process whose init_mount_root has returned r1 *)
BootOthers(r1, m) ==
    IF r1.ret < 0 THEN r1
    ELSE init_mount([r1 EXCEPT !.log = <<>>], FALSE, m.mount, m.start_dir, 0, EnvOk)

(* the two boot calls of a process started with manifest m, with an        *)
(* environment that fails nothing                                          *)
Booted(m) ==
    BootOthers(init_mount_root(BootState([d \in MDents |-> MDentry(d)], <<>>, "/"),
                               FALSE, m.root, 0, EnvOk),
               m)

(* the process has booted into b *)
BootedInto(b, m) ==
    /\ b.ret = 0
    /\ dentries = b.ds
    /\ mount_list = b.list
    /\ process = [cwd |-> b.cwd, root |-> "/", manifest |-> m]

InitMigrate ==
    /\ last = NoCall
    /\ ncalls = 0
    /\ hdl = [h \in {} |-> 0]
    /\ sf = IdleFrame
    /\ log = <<>>
    /\ ThreadsIdle
    /\ mount_migrated = FALSE
    /\ image = [NoImage EXCEPT !.phase = "cp"]
    /\ \E m \in Manifests : BootedInto(Booted(m), m)

NextMigrate ==
    CpMount \/ CpAllMounts \/ ReceiveImage \/ RestoreEntry
        \/ InitMountRootCall \/ InitMountCall

SpecMigrate == InitMigrate /\ [][NextMigrate]_vars


(* the (filesystem type name, uri, path) triples of a table, in its order *)
Triples(list) ==
    [i \in 1..Len(list) |->
        [type |-> list[i].fs, uri |-> list[i].uri, path |-> list[i].path]]

(* the table walk has run: the image ends the mount table *)
WalkDone == \E n \in 1..Len(image.entries) : image.entries[n].kind = "all_mounts"

(* the table that was checkpointed *)
Checkpointed == IF image.phase = "rs" THEN image.src ELSE mount_list

(* the entries of the image that hold mount id *)
MountEntries(id) ==
    {n \in 1..Len(image.entries) :
        image.entries[n].kind = "mount" /\ image.entries[n].id = id}

SerializedOnce ==
    WalkDone =>
        \A i \in 1..Len(Checkpointed) :
            Cardinality(MountEntries(Checkpointed[i].id)) = 1

(* restore has left the image: at its end, or at a failing entry *)
RestoreEnded ==
    /\ image.phase = "rs"
    /\ (image.pos = Len(image.entries) \/ image.ret < 0)

RestoreComplete ==
    /\ image.phase = "rs"
    /\ image.pos = Len(image.entries)
    /\ image.ret = 0

(* list with its i-th element moved to the front; list itself for i = 0 *)
MoveToFront(list, i) ==
    IF i = 0 THEN list
    ELSE <<list[i]>> \o SubSeq(list, 1, i - 1) \o SubSeq(list, i + 1, Len(list))

FsEntries(fs) ==
    {n \in 1..Len(image.entries) :
        image.entries[n].kind = "fs" /\ image.entries[n].name = fs}

(* C19: in a checkpoint the descriptor of each filesystem type that a      *)
(* serialized mount refers to is written exactly once, under its name and  *)
(* with both operation tables null; a restored descriptor has the          *)
(* operation tables of the built-in type of the same name, and the restore *)
(* of a descriptor whose name no built-in type has fails with -EINVAL.     *)
C19_FsOnceAndResolvedByName ==
    /\ \A n \in 1..Len(image.entries) :
          /\ image.entries[n].kind = "fs" =>
                /\ image.entries[n].fs_ops = Null
                /\ image.entries[n].d_ops = Null
                /\ \E i \in 1..Len(Checkpointed) :
                       Checkpointed[i].fs = image.entries[n].name
          /\ image.entries[n].kind = "mount" =>
                Cardinality(FsEntries(image.entries[n].fs)) = 1
    /\ image.phase = "rs" =>
          /\ \A n \in 1..image.pos :
                image.entries[n].kind = "fs" =>
                    IF image.entries[n].name \in image.registry
                    THEN \E d \in image.fs :
                            /\ d.name = image.entries[n].name
                            /\ d.fs_ops = find_fs_in(image.registry, d.name)
                            /\ d.d_ops = find_fs_in(image.registry, d.name)
                    ELSE image.ret = -EINVAL /\ n = image.pos
          /\ \A d \in image.fs : d.fs_ops = d.name /\ d.d_ops = d.name
          /\ image.ret \in {0, -EINVAL}
          /\ image.ret = -EINVAL =>
                /\ image.entries[image.pos].kind = "fs"
                /\ image.entries[image.pos].name \notin image.registry

(* an image in which several mounts share the chroot descriptor; restore   *)
(* has resolved that descriptor and has failed on one no built-in matches  *)
C19_Witness ==
    /\ image.phase = "rs"
    /\ image.ret = -EINVAL
    /\ \E d \in image.fs : d.name = "chroot" /\ d.fs_ops = "chroot"
    /\ Cardinality({n \in 1..Len(image.entries) :
                       image.entries[n].kind = "mount"
                           /\ image.entries[n].fs = "chroot"}) >= 2

(* the process has restored the all_mounts entry of an image *)
SentinelRestored ==
    /\ image.phase = "rs"
    /\ \E n \in 1..image.pos : image.entries[n].kind = "all_mounts"

BootCall(r) == r.op \in {"init_mount_root", "init_mount"}

(* C20: once the all_mounts entry has been restored the migrated flag      *)
(* stays set, and every init_mount_root or init_mount called from then on  *)
(* returns 0, adds no mount and leaves the process root and working        *)
(* directory as they are.                                                  *)
C20_MigratedSuppressesBoot ==
    [][/\ SentinelRestored => (mount_migrated /\ mount_migrated')
       /\ (SentinelRestored /\ BootCall(last') /\ ncalls' # ncalls) =>
             /\ last'.ret = 0
             /\ mount_list' = mount_list
             /\ process'.root = process.root
             /\ process'.cwd = process.cwd]_vars

(* init_mount called in a restored process whose manifest declares mounts  *)
(* and a start directory other than the working directory                  *)
C20_Witness ==
    /\ SentinelRestored
    /\ mount_migrated
    /\ last.op = "init_mount"
    /\ last.migrated0
    /\ process.manifest.mount # <<>>
    /\ process.manifest.start_dir = "/a"


(* the restore function of a mount entry has run, and its migrate hook     *)
(* returned an error                                                       *)
MigrateFailed ==
    /\ last.op = "restore"
    /\ last.kind = "mount"
    /\ last.called
    /\ last.migrate < 0

(* C26: when the migrate hook of a mount entry returns an error, the       *)
(* restore reports an error and does not append a mount whose backend data *)
(* is null to the mount table.                                             *)
C26_MigrateErrorReported ==
    MigrateFailed =>
        /\ last.ret < 0
        /\ image.ret < 0
        /\ mount_list = last.list0

---------------------------------------------------------------------------
(*               specification: references held across a call              *)

InitRefs ==
    /\ dentries = [d \in DentryNames |-> InitDentry(d)]
    /\ last = NoCall
    /\ ncalls = 0
    /\ hdl = [fd \in Fds |-> FileHandle(fd)]
    /\ sf = IdleFrame
    /\ log = <<>>
    /\ ThreadsIdle
    /\ MountIdle

NextRefs == Unlinkat \/ Rmdir \/ Fchmodat \/ Fchownat \/ Renameat \/ Fchmod \/ Fchown

SpecRefs == InitRefs /\ [][NextRefs]_vars

(* the calls that take dentry references through get_dirfd_dentry or       *)
(* path_lookupat                                                           *)
DentryCalls == {"unlinkat", "rmdir", "fchmodat", "fchownat", "renameat"}

(* C21: unlinkat, rmdir, fchmodat, fchownat and renameat leave, on every   *)
(* exit path, the ref_count of every dentry as it was before the call.     *)
C21_DentryRefsReleased ==
    [][last'.op \in DentryCalls =>
          \A d \in DentryNames : dentries'[d].ref_count = dentries[d].ref_count]_vars

(* a renameat through a directory fd that reached do_rename and failed:    *)
(* four references were taken                                              *)
C21_Witness ==
    /\ last.op = "renameat"
    /\ last.reached
    /\ last.ret < 0
    /\ PathDir(last.path) # NoDent
    /\ PathDir(last.path2) # NoDent

(* the calls of this specification that take a handle reference through   *)
(* get_fd_handle                                                           *)
HandleCalls == {"fchmod", "fchown"}

(* C22: a call that takes handle references through get_fd_handle leaves,  *)
(* on every exit path, the reference count of every handle as it was       *)
(* before the call.                                                        *)
C22_HandleRefsReleased ==
    [][last'.op \in HandleCalls =>
          \A fd \in DOMAIN hdl : hdl'[fd].ref_count = hdl[fd].ref_count]_vars

(* the backend's unlink, or its chmod, was called and returned an error *)
UnlinkBackendFailed == last.op \in {"unlinkat", "rmdir"} /\ last.bret < 0
ChmodBackendFailed == last.op \in {"fchmodat", "fchmod"} /\ last.bret < 0

(* C32: when the backend unlink fails, unlinkat and rmdir return its error *)
(* and leave the dentry's flags as they were: not NEGATIVE, not PERSIST,   *)
(* ISDIRECTORY kept; when the backend chmod fails, fchmodat and fchmod     *)
(* return its error and leave the dentry's perm and flags as they were.    *)
C32_BackendFailureChangesNothing ==
    /\ UnlinkBackendFailed =>
          /\ last.ret = last.bret
          /\ last.called = {"unlink"}
          /\ last.changed = {}
          /\ dentries[last.old].state = last.pre
          /\ {"DENTRY_NEGATIVE", "DENTRY_PERSIST"} \cap dentries[last.old].state = {}
          /\ (last.op = "rmdir" \/ last.flag = "AT_REMOVEDIR") =>
                "DENTRY_ISDIRECTORY" \in dentries[last.old].state
    /\ ChmodBackendFailed =>
          /\ last.ret = last.bret
          /\ Len(last.handed) = 1
          /\ last.changed = {}
          /\ dentries[last.old].state = last.pre
          /\ dentries[last.old].perm = last.perm0

(* the backend's unlink failed for an rmdir, the second call made *)
C32_Witness ==
    /\ UnlinkBackendFailed
    /\ last.op = "rmdir"
    /\ "DENTRY_ISDIRECTORY" \in last.pre
    /\ ncalls = 2

---------------------------------------------------------------------------
(*                   specification: concurrent threads                     *)

InitThreads ==
    /\ dentries = [d \in DentryNames |->
                     [InitDentry(d) EXCEPT !.ref_count = @ + ProcessRefs(d, "/", "/")]]
    /\ last = [op |-> "none", chroots |-> {}, unlinked |-> {}]
    /\ ncalls = 0
    /\ hdl = [h \in {} |-> 0]
    /\ sf = IdleFrame
    /\ log = <<>>
    /\ threads = [t \in Threads |-> IdleThread]
    /\ locks = [g_dcache_lock |-> NoThread, fs_lock |-> NoThread,
                mount_list_lock |-> NoThread]
    /\ MountIdle

NextThreads ==
    \E t \in Threads :
        \/ UnlinkatEnter(t) \/ UnlinkatBody(t)
        \/ RenameatEnter(t) \/ RenameatLookupNew(t) \/ RenameatAssert(t) \/ RenameatDo(t)
        \/ ThreadOut(t)
        \/ ChrootEnter(t) \/ ChrootLock(t) \/ ChrootPutRoot(t) \/ ChrootStoreRoot(t)
        \/ ChrootUnlock(t)

SpecThreads == InitThreads /\ [][NextThreads]_vars

(* C23: a renameat that reaches do_rename finds ref_count >= 2 on the      *)
(* source and on the destination dentry, at the assertions and when        *)
(* do_rename runs, whatever references other threads release meanwhile.    *)
C23_RenameAssertionsHold ==
    \A t \in Threads :
        /\ threads[t].pc # "abort"
        /\ threads[t].pc = "do_rename" =>
              /\ threads[t].at_assert[1] >= 2
              /\ threads[t].at_assert[2] >= 2
              /\ dentries[threads[t].dent].ref_count >= 2
              /\ dentries[threads[t].dent2].ref_count >= 2

(* a renameat past its assertions, another thread having released a        *)
(* reference on the source between the lookup and the assertions           *)
C23_Witness ==
    \E t \in Threads :
        /\ threads[t].pc = "do_rename"
        /\ threads[t].at_assert[1] < threads[t].at_lookup

(* no call in progress *)
Quiescent == \A t \in Threads : threads[t].pc = "idle"

(* between lock and unlock of g_process.fs_lock in chroot *)
InRootSection(t) == threads[t].pc \in {"put_root", "store_root", "unlock"}

(* C24: the put of the old root and the store of the new one are done by   *)
(* the owner of the process-state lock; once the concurrent chroot calls   *)
(* have returned, the root is the dentry of one of the successful ones,    *)
(* and every dentry has the references of the cache and of the process     *)
(* fields that point to it: the root holds one, each former root lost one. *)
C24_ChrootSwapsRootUnderLock ==
    /\ \A t \in Threads : InRootSection(t) => locks.fs_lock = t
    /\ Quiescent =>
          /\ process.root \in (IF last.chroots = {} THEN {"/"} ELSE last.chroots)
          /\ \A d \in DentryNames :
                dentries[d].ref_count =
                    InitDentry(d).ref_count + ProcessRefs(d, process.root, process.cwd)

(* two chroot calls to different directories have returned 0 *)
C24_Witness ==
    /\ Quiescent
    /\ Cardinality(last.chroots) = 2

(* C25: every write of a dentry's state flags is made by a thread that     *)
(* holds the cache-wide dentry lock.                                       *)
C25_FlagWritesUnderDcacheLock ==
    \A t \in Threads :
        (threads[t].pc # "idle" /\ threads[t].wrote # {}) =>
            "g_dcache_lock" \in threads[t].held

(* two unlinkat calls of different threads that returned 0 for the same    *)
(* dentry, the second having looked it up while the first was in progress  *)
BothUnlinked(a, b) ==
    /\ a.thread # b.thread
    /\ a.dent = b.dent
    /\ a.thread \in b.beside

(* C36: of two unlinkat calls that two threads make concurrently on the    *)
(* same existing path, at most one returns 0, whether the filesystem has   *)
(* an unlink operation or not (DENTRY_PERSIST fallback).                   *)
C36_OneUnlinkatWins ==
    \A a \in last.unlinked, b \in last.unlinked : ~BothUnlinked(a, b)

(* the same for a filesystem with no unlink operation only *)
C36_OneUnlinkatWinsPersist ==
    \A a \in last.unlinked, b \in last.unlinked :
        "unlink" \notin DOps(dentries[a.dent].fs) => ~BothUnlinked(a, b)

---------------------------------------------------------------------------
(*        the mount list and its lock, with concurrent threads             *)
(*                                                                         *)
(* Each thread runs one of the functions of shim_fs.c that touch           *)
(* mount_list.  LISTP_ADD_TAIL is several stores (the tail's next, the new *)
(* node's prev, the list head), so an insertion is two steps: the list is  *)
(* half linked while the inserting thread is at "linking".                 *)

ListInserters == {"__mount_fs", "rs_mount"}
ListReaders == {"walk_mounts", "find_mount_from_uri", "cp_all_mounts"}

(* the functions that take mount_list_lock around their use of the list:   *)
(* __mount_fs 376, walk_mounts 573, find_mount_from_uri 592 and            *)
(* CP_FUNC(all_mounts) 761; RS_FUNC(mount) 720-746 takes no lock           *)
ListLockTakers == {"__mount_fs", "walk_mounts", "find_mount_from_uri", "cp_all_mounts"}

TakesListLock(op) == op \in ListLockTakers

ListFrame(op, id) ==
    [op |-> op, pc |-> IF TakesListLock(op) THEN "lock" ELSE "list", id |-> id,
     held |-> {}, busy |-> {}, seen |-> 0]

(* the threads whose insertion is in progress *)
Linking == {u \in Threads : threads[u].pc = "linking"}

(* a thread enters one of the functions *)
ListEnter(t) ==
    /\ threads[t].pc = "idle"
    /\ ncalls < MaxThreadCalls
    /\ \E op \in ListInserters \cup ListReaders :
          threads' = [threads EXCEPT ![t] = ListFrame(op, ncalls + 1)]
    /\ ncalls' = ncalls + 1
    /\ UNCHANGED <<dentries, last, hdl, sf, log, locks, mountVars>>

(* lock(&mount_list_lock) *)
ListLock(t) ==
    /\ threads[t].pc = "lock"
    /\ LockFree("mount_list_lock")
    /\ locks' = [locks EXCEPT !.mount_list_lock = t]
    /\ threads' = [threads EXCEPT ![t].pc = "list"]
    /\ UNCHANGED <<dentries, last, ncalls, hdl, sf, log, mountVars>>

(* LISTP_ADD_TAIL, first stores: the node is being linked *)
ListLink(t) ==
    /\ threads[t].pc = "list"
    /\ threads[t].op \in ListInserters
    /\ threads' = [threads EXCEPT ![t].pc = "linking", ![t].held = HeldLocks(t),
                                  ![t].busy = Linking \ {t}]
    /\ UNCHANGED <<dentries, last, ncalls, hdl, sf, log, locks, mountVars>>

(* LISTP_ADD_TAIL, last store: the node is in the list *)
ListLinked(t) ==
    /\ threads[t].pc = "linking"
    /\ mount_list' = Append(mount_list,
                            MountRec(threads[t].id, "chroot", <<"f">>, "/a", NoDent))
    /\ threads' = [threads EXCEPT ![t].pc = "unlock"]
    /\ UNCHANGED <<dentries, last, ncalls, hdl, sf, log, locks,
                   mount_migrated, image, process>>

(* LISTP_FOR_EACH_ENTRY: the thread reads the list *)
ListIterate(t) ==
    /\ threads[t].pc = "list"
    /\ threads[t].op \in ListReaders
    /\ threads' = [threads EXCEPT ![t].pc = "unlock", ![t].held = HeldLocks(t),
                                  ![t].busy = Linking \ {t},
                                  ![t].seen = Len(mount_list)]
    /\ UNCHANGED <<dentries, last, ncalls, hdl, sf, log, locks, mountVars>>

(* unlock(&mount_list_lock) where it was taken, and return *)
ListReturn(t) ==
    /\ threads[t].pc = "unlock"
    /\ locks' = [locks EXCEPT !.mount_list_lock =
                                IF locks.mount_list_lock = t THEN NoThread ELSE @]
    /\ threads' = [threads EXCEPT ![t] = IdleThread]
    /\ last' = [op |-> threads[t].op, thread |-> t, held |-> threads[t].held,
                busy |-> threads[t].busy, seen |-> threads[t].seen]
    /\ UNCHANGED <<dentries, ncalls, hdl, sf, log, mountVars>>

InitMountList ==
    /\ InitThreads
    /\ mount_list = <<>>

NextMountList ==
    \E t \in Threads :
        \/ ListEnter(t) \/ ListLock(t) \/ ListLink(t) \/ ListLinked(t)
        \/ ListIterate(t) \/ ListReturn(t)

SpecMountList == InitMountList /\ [][NextMountList]_vars

(* the threads that are inserting into the list or have just read it *)
UsingList(t) == threads[t].pc \in {"linking", "unlock"}

(* C35: every insertion into the mount list and every iteration over it   *)
(* is made by a thread that holds mount_list_lock, and no thread reads or  *)
(* links the list while another thread's insertion is in progress.         *)
C35_ListUsedUnderLock ==
    \A t \in Threads :
        UsingList(t) =>
            /\ "mount_list_lock" \in threads[t].held
            /\ threads[t].busy = {}

====
